---- MODULE Spec2Model ----
(***************************************************************************)
(* Model of the contract-text core of analyzer.py: heading-based section   *)
(* segmentation (split_into_sections / sections_to_text), anchor-based     *)
(* clause injection (inject_clause_smartly) and keyword matching of a      *)
(* regulation (match_regulation_to_contract) with the pages that read the  *)
(* regulation store; of the rule-based flagger of main.py                  *)
(* (check_compliance); and of the risk scorer of Risk_Assessment.py        *)
(* (analyze_single_contract). Further specifications cover the contract   *)
(* index (save_uploaded_contract and the fix handlers of the pages), the   *)
(* fetching of new regulations by one and by two sessions, the inline      *)
(* update blocks (apply_updates_inline), extract_json_block of main.py and *)
(* the update-marker cleanup of test_clean.py.                             *)
(*                                                                         *)
(* A text is a sequence of characters, a character a one-character string. *)
(* Offsets into a text are 0-based as in Python; text[k] in Python is      *)
(* t[k + 1] here.                                                          *)
(***************************************************************************)
EXTENDS Integers, Sequences, FiniteSets, TLC

VARIABLES
    original_text, new_clause_text, sections, result_text,  \* segmentation, injection
    history,                                                \* clauses injected so far
    reg, current_text, score, matches,                      \* regulation matcher
    clauses, flags,                                         \* compliance flagger
    risk,                                                   \* risk scorer
    regs, contract_index, violations, impacted, raised,     \* regulation store and its readers
    session,                                                \* what each session holds of the stores
    pc

text_vars == <<original_text, new_clause_text, sections, result_text, history>>

matcher_vars == <<reg, current_text, score, matches>>

flagger_vars == <<clauses, flags>>

store_vars == <<regs, contract_index, violations, impacted, raised, session>>

vars == <<text_vars, matcher_vars, flagger_vars, risk, store_vars, pc>>

\* the value of a variable no operation has set
None == "None"

TextIdle ==
    /\ original_text = <<>>
    /\ new_clause_text = <<>>
    /\ sections = <<>>
    /\ result_text = <<>>
    /\ history = <<>>

MatcherIdle == reg = None /\ current_text = <<>> /\ score = 0 /\ matches = <<>>

FlaggerIdle == clauses = None /\ flags = None

RiskIdle == risk = None

StoreIdle ==
    /\ regs = None
    /\ contract_index = <<>>
    /\ violations = <<>>
    /\ impacted = <<>>
    /\ raised = None
    /\ session = None

(***************************************************************************)
(* Character classes                                                       *)
(***************************************************************************)

\* [A-Z]
UpperLetters == <<"A", "B", "C", "D", "E", "F", "G", "H", "I", "J", "K", "L", "M", "N", "O", "P", "Q", "R", "S", "T", "U", "V", "W", "X", "Y", "Z">>

\* the lower-case counterparts, index by index
LowerLetters == <<"a", "b", "c", "d", "e", "f", "g", "h", "i", "j", "k", "l", "m", "n", "o", "p", "q", "r", "s", "t", "u", "v", "w", "x", "y", "z">>

\* [0-9], and what \d accepts within the model's alphabet
Digits == {"0", "1", "2", "3", "4", "5", "6", "7", "8", "9"}

\* what str.strip()/str.rstrip() remove and what \s accepts, among the
\* characters a string here can spell
Whitespace == {" ", "\t", "\n", "\r", "\f"}

\* the boundaries str.splitlines() splits on, among the same characters
LineBreaks == {"\n", "\r", "\f"}

Range(s) == {s[i] : i \in 1..Len(s)}

(***************************************************************************)
(* Python string primitives                                                *)
(***************************************************************************)

\* s[a:b] for 0 <= a, b
Slice(s, a, b) == SubSeq(s, a + 1, b)

\* s.rstrip(): drop characters from the end while they are whitespace
RECURSIVE rstrip(_)
rstrip(s) ==
    IF s # <<>> /\ s[Len(s)] \in Whitespace
    THEN rstrip(SubSeq(s, 1, Len(s) - 1))
    ELSE s

\* s.lstrip()
RECURSIVE lstrip(_)
lstrip(s) ==
    IF s # <<>> /\ s[1] \in Whitespace
    THEN lstrip(Tail(s))
    ELSE s

\* s.strip()
strip(s) == lstrip(rstrip(s))

\* sep.join(parts)
RECURSIVE join(_, _)
join(sep, parts) ==
    IF parts = <<>> THEN <<>>
    ELSE IF Len(parts) = 1 THEN parts[1]
    ELSE parts[1] \o sep \o join(sep, Tail(parts))

\* offset of the first line boundary at or after offset i, Len(s) when none
RECURSIVE FindBreak(_, _)
FindBreak(s, i) ==
    IF i >= Len(s) THEN Len(s)
    ELSE IF s[i + 1] \in LineBreaks THEN i
    ELSE FindBreak(s, i + 1)

\* s.splitlines() from offset i on: every line up to its boundary, "\r\n"
\* counting as one boundary, no empty last line after a final boundary
RECURSIVE SplitLinesFrom(_, _)
SplitLinesFrom(s, i) ==
    IF i >= Len(s) THEN <<>>
    ELSE LET j == FindBreak(s, i)
             eol == IF j >= Len(s) THEN j
                    ELSE IF s[j + 1] = "\r" /\ j + 1 < Len(s) /\ s[j + 2] = "\n"
                         THEN j + 2
                         ELSE j + 1
         IN  <<Slice(s, i, j)>> \o SplitLinesFrom(s, eol)

splitlines(s) == SplitLinesFrom(s, 0)

(***************************************************************************)
(* HEADING_RE = ^[A-Z0-9 \-&(),]{3,}$                                      *)
(***************************************************************************)

\* the character class [A-Z0-9 \-&(),]
HeadingClass == Range(UpperLetters) \cup Digits \cup {" ", "-", "&", "(", ")", ","}

\* the least repetition count of {3,}
MinHeadingLen == 3

\* number of leading characters of s that the class accepts
RECURSIVE ClassRun(_, _)
ClassRun(s, cls) ==
    IF s # <<>> /\ s[1] \in cls THEN 1 + ClassRun(Tail(s), cls) ELSE 0

\* $ without MULTILINE at offset k: the end, or just before a final "\n"
AtDollar(s, k) ==
    \/ k = Len(s)
    \/ k = Len(s) - 1 /\ s[Len(s)] = "\n"

\* HEADING_RE as a bug would have it: the pattern not anchored by $, so that
\* three heading characters at the start of the line are enough
HEADING_RE_unanchored(s) == ClassRun(s, HeadingClass) >= MinHeadingLen

\* HEADING_RE as a bug would have it: the repetition {1,} in place of {3,}
HEADING_RE_any_length(s) ==
    \E k \in 1..ClassRun(s, HeadingClass) : AtDollar(s, k)

\* HEADING_RE.match(s): some repetition count k >= 3 within the run of class
\* characters at the start of s leaves the rest of s acceptable to $
HEADING_RE(s) ==
    \E k \in MinHeadingLen..ClassRun(s, HeadingClass) : AtDollar(s, k)

(***************************************************************************)
(* split_into_sections / sections_to_text                                  *)
(***************************************************************************)

Preamble == <<"P", "r", "e", "a", "m", "b", "l", "e">>

NL == <<"\n">>

\* CloseSection as a bug would have it: the joined body lines not trimmed
CloseSection_untrimmed(current_heading, current_lines) ==
    <<strip(current_heading), join(NL, current_lines)>>

\* the section closed by a heading or by the end of the text
CloseSection(current_heading, current_lines) ==
    <<strip(current_heading), strip(join(NL, current_lines))>>

\* ClosesSection as a variant would have it: every heading closes a section
ClosesAlways(current_lines, secs) == TRUE

\* `if current_lines or sections`: whether a heading closes the section
\* before it
ClosesSection(current_lines, secs) == current_lines # <<>> \/ secs # <<>>

\* the sections once a heading line has been met
AtHeading(secs, current_heading, current_lines) ==
    IF ClosesSection(current_lines, secs)
    THEN Append(secs, CloseSection(current_heading, current_lines))
    ELSE secs

\* AppendLast as a bug would have it: the last section is appended only
\* when something was collected
AppendLastIfAny(secs, current_heading, current_lines) ==
    IF current_lines # <<>> \/ secs # <<>>
    THEN Append(secs, CloseSection(current_heading, current_lines))
    ELSE secs

\* the append after the loop
AppendLast(secs, current_heading, current_lines) ==
    Append(secs, CloseSection(current_heading, current_lines))

\* the for-loop of split_into_sections from line i on, then the final append
RECURSIVE SplitLoop(_, _, _, _, _)
SplitLoop(lines, i, current_heading, current_lines, secs) ==
    IF i > Len(lines)
    THEN AppendLast(secs, current_heading, current_lines)
    ELSE LET ln == lines[i] IN
         IF strip(ln) = <<>>
         THEN SplitLoop(lines, i + 1, current_heading, Append(current_lines, <<>>), secs)
         ELSE IF HEADING_RE(strip(ln))
         THEN SplitLoop(lines, i + 1, strip(ln), <<>>,
                        AtHeading(secs, current_heading, current_lines))
         ELSE SplitLoop(lines, i + 1, current_heading, Append(current_lines, ln), secs)

\* lines = [ln.rstrip() for ln in text.splitlines()]
StrippedLines(text) ==
    LET raw == splitlines(text) IN [i \in 1..Len(raw) |-> rstrip(raw[i])]

split_into_sections(text) ==
    SplitLoop(StrippedLines(text), 1, Preamble, <<>>, <<>>)

\* OutLines as a bug would have it: a heading is written only along with a
\* body
RECURSIVE OutLinesWithBody(_, _)
OutLinesWithBody(secs, i) ==
    IF i > Len(secs) THEN <<>>
    ELSE LET h == secs[i][1]
             c == secs[i][2]
         IN  (IF h # <<>> /\ h # Preamble /\ c # <<>> THEN <<h>> ELSE <<>>)
             \o (IF c # <<>> THEN <<c>> ELSE <<>>)
             \o << <<>> >>
             \o OutLinesWithBody(secs, i + 1)

\* the list `out` that sections_to_text builds from section i on
RECURSIVE OutLines(_, _)
OutLines(secs, i) ==
    IF i > Len(secs) THEN <<>>
    ELSE LET h == secs[i][1]
             c == secs[i][2]
         IN  (IF h # <<>> /\ h # Preamble THEN <<h>> ELSE <<>>)
             \o (IF c # <<>> THEN <<c>> ELSE <<>>)
             \o << <<>> >>
             \o OutLines(secs, i + 1)

sections_to_text(secs) == strip(join(NL, OutLines(secs, 1)))

(***************************************************************************)
(* Regular expressions of inject_clause_smartly                            *)
(*                                                                         *)
(* A pattern is a sequence of items [op, cls]: "one" takes one character   *)
(* of cls, "opt" at most one, "star" any number.  Every pattern of         *)
(* target_patterns begins with ^ and is searched with re.MULTILINE.        *)
(***************************************************************************)

\* (?i): a letter stands for both of its cases
CaseFold(c) ==
    {c} \cup {LowerLetters[i] : i \in {j \in 1..Len(UpperLetters) : UpperLetters[j] = c}}
        \cup {UpperLetters[i] : i \in {j \in 1..Len(LowerLetters) : LowerLetters[j] = c}}

One(cls) == <<[op |-> "one", cls |-> cls]>>

Opt(cls) == <<[op |-> "opt", cls |-> cls]>>

Star(cls) == <<[op |-> "star", cls |-> cls]>>

\* a literal word under (?i)
Lit(w) == [i \in 1..Len(w) |-> [op |-> "one", cls |-> CaseFold(w[i])]]

\* \s*
WS0 == Star(Whitespace)

\* \s+
WS1 == One(Whitespace) \o Star(Whitespace)

\* \s*\d*\.?\s*
NUM == WS0 \o Star(Digits) \o Opt({"."}) \o WS0

W_THIS == <<"T", "h", "i", "s">>
W_IS == <<"i", "s">>
W_A == <<"a">>
W_SAMPLE == <<"s", "a", "m", "p", "l", "e">>
W_USER == <<"U", "S", "E", "R">>
W_GUIDE == <<"G", "U", "I", "D", "E">>
W_TERM == <<"T", "E", "R", "M">>
W_AND == <<"A", "N", "D">>
W_TERMINATION == <<"T", "E", "R", "M", "I", "N", "A", "T", "I", "O", "N">>
W_WARRANTIES == <<"W", "A", "R", "R", "A", "N", "T", "I", "E", "S">>
W_LIMITATION == <<"L", "I", "M", "I", "T", "A", "T", "I", "O", "N">>
W_OF == <<"O", "F">>
W_LIABILITY == <<"L", "I", "A", "B", "I", "L", "I", "T", "Y">>
W_GENERAL == <<"G", "E", "N", "E", "R", "A", "L">>
W_PROVISIONS == <<"P", "R", "O", "V", "I", "S", "I", "O", "N", "S">>
W_INDEMNIFICATION == <<"I", "N", "D", "E", "M", "N", "I", "F", "I", "C", "A", "T", "I", "O", "N">>
W_IN == <<"I", "N">>
W_WITNESS == <<"W", "I", "T", "N", "E", "S", "S">>
W_WHEREOF == <<"W", "H", "E", "R", "E", "O", "F">>
W_SIGNATURE == <<"S", "I", "G", "N", "A", "T", "U", "R", "E">>
W_ANNEXES == <<"A", "N", "N", "E", "X", "E", "S">>
W_RECOMMENDATIONS == <<"R", "E", "C", "O", "M", "M", "E", "N", "D", "A", "T", "I", "O", "N", "S">>

\* target_patterns as a reordering would have it: WARRANTIES moved ahead of
\* USER GUIDE
target_patterns_reordered ==
    << WS0 \o Lit(W_THIS) \o WS1 \o Lit(W_IS) \o WS1 \o Lit(W_A) \o WS1 \o Lit(W_SAMPLE),
       NUM \o Lit(W_WARRANTIES),
       NUM \o Lit(W_TERM) \o WS1 \o Lit(W_AND) \o WS1 \o Lit(W_TERMINATION),
       WS0 \o Lit(W_USER) \o WS1 \o Lit(W_GUIDE),
       NUM \o Lit(W_LIMITATION) \o WS1 \o Lit(W_OF) \o WS1 \o Lit(W_LIABILITY),
       NUM \o Lit(W_GENERAL) \o WS1 \o Lit(W_PROVISIONS),
       NUM \o Lit(W_INDEMNIFICATION),
       WS0 \o Lit(W_IN) \o WS1 \o Lit(W_WITNESS) \o WS1 \o Lit(W_WHEREOF),
       WS0 \o Lit(W_SIGNATURE) \o Opt(CaseFold("S")),
       WS0 \o Lit(W_ANNEXES),
       WS0 \o Lit(W_GENERAL) \o WS1 \o Lit(W_RECOMMENDATIONS) >>

\* the ordered list of anchors, highest priority first
target_patterns ==
    << WS0 \o Lit(W_THIS) \o WS1 \o Lit(W_IS) \o WS1 \o Lit(W_A) \o WS1 \o Lit(W_SAMPLE),
       WS0 \o Lit(W_USER) \o WS1 \o Lit(W_GUIDE),
       NUM \o Lit(W_TERM) \o WS1 \o Lit(W_AND) \o WS1 \o Lit(W_TERMINATION),
       NUM \o Lit(W_WARRANTIES),
       NUM \o Lit(W_LIMITATION) \o WS1 \o Lit(W_OF) \o WS1 \o Lit(W_LIABILITY),
       NUM \o Lit(W_GENERAL) \o WS1 \o Lit(W_PROVISIONS),
       NUM \o Lit(W_INDEMNIFICATION),
       WS0 \o Lit(W_IN) \o WS1 \o Lit(W_WITNESS) \o WS1 \o Lit(W_WHEREOF),
       WS0 \o Lit(W_SIGNATURE) \o Opt(CaseFold("S")),
       WS0 \o Lit(W_ANNEXES),
       WS0 \o Lit(W_GENERAL) \o WS1 \o Lit(W_RECOMMENDATIONS) >>

\* whether items k.. of pat match t from offset i on, trying the longer
\* repetition first and backtracking as the regex engine does
RECURSIVE MatchHere(_, _, _, _)
MatchHere(pat, k, t, i) ==
    IF k > Len(pat) THEN TRUE
    ELSE LET takes == i < Len(t) /\ t[i + 1] \in pat[k].cls IN
         CASE pat[k].op = "one"  -> takes /\ MatchHere(pat, k + 1, t, i + 1)
           [] pat[k].op = "opt"  -> \/ takes /\ MatchHere(pat, k + 1, t, i + 1)
                                    \/ MatchHere(pat, k + 1, t, i)
           [] pat[k].op = "star" -> \/ takes /\ MatchHere(pat, k, t, i + 1)
                                    \/ MatchHere(pat, k + 1, t, i)

\* ^ under re.MULTILINE: the start of the text or just after a "\n"
AtLineStart(t, i) == i = 0 \/ t[i] = "\n"

\* re.search(pattern, t, re.MULTILINE).start() scanning from offset i,
\* -1 when there is no match
RECURSIVE SearchFrom(_, _, _)
SearchFrom(pat, t, i) ==
    IF i > Len(t) THEN -1
    ELSE IF AtLineStart(t, i) /\ MatchHere(pat, 1, t, i) THEN i
    ELSE SearchFrom(pat, t, i + 1)

re_search(pat, t) == SearchFrom(pat, t, 0)

\* the loop over target_patterns from pattern k on: the start of the match
\* of the first pattern that matches, -1 when none does
RECURSIVE FindInsertionIndex(_, _)
FindInsertionIndex(t, k) ==
    IF k > Len(target_patterns) THEN -1
    ELSE LET m == re_search(target_patterns[k], t) IN
         IF m # -1 THEN m ELSE FindInsertionIndex(t, k + 1)

NLNL == <<"\n", "\n">>

\* part_1 as a bug would have it: the prefix is not right-trimmed
part_1_untrimmed(t, insertion_index) == Slice(t, 0, insertion_index)

\* the text before the insertion point as it is written out
part_1(t, insertion_index) == rstrip(Slice(t, 0, insertion_index))

\* part_2 as a bug would have it: the slice starts one character late
part_2_late(t, insertion_index) == Slice(t, insertion_index + 1, Len(t))

\* the text from the insertion point on
part_2(t, insertion_index) == Slice(t, insertion_index, Len(t))

inject_clause_smartly(t, clause) ==
    LET insertion_index == FindInsertionIndex(t, 1) IN
    IF insertion_index # -1
    THEN part_1(t, insertion_index) \o NLNL \o clause \o NLNL \o part_2(t, insertion_index)
    ELSE t \o NLNL \o clause

(***************************************************************************)
(* Inputs                                                                  *)
(***************************************************************************)

\* a heading with every kind of character a heading may have
FeesAndTaxes == <<"F", "E", "E", "S", " ", "&", " ", "T", "A", "X", "E", "S", " ", "(", "1", "-", "2", ")", ",", " ", "C", "O", "S", "T", "S">>

Warranties == <<"W", "A", "R", "R", "A", "N", "T", "I", "E", "S">>

\* the pieces documents are assembled from
SegPieces ==
    { <<"A">>, <<"b">>, <<"1">>, <<".">>, <<" ">>, <<"\t">>, <<"\n">>, <<"\r">>,
      FeesAndTaxes, Warranties }

\* longest document, in pieces
MaxSegPieces == 4

\* all concatenations of at most n pieces
RECURSIVE Concats(_, _)
Concats(pieces, n) ==
    IF n = 0 THEN {<<>>}
    ELSE LET shorter == Concats(pieces, n - 1)
         IN  shorter \cup {d \o p : d \in shorter, p \in pieces}

\* the document of the end-to-end segmentation scenario
SegmentationExample == <<"P", "R", "E", "A", "M", "B", "L", "E", " ", "T", "E", "X", "T", "\n", "T", "E", "R", "M", " ", "A", "N", "D", " ", "T", "E", "R", "M", "I", "N", "A", "T", "I", "O", "N", "\n", "T", "h", "i", "s", " ", "a", "g", "r", "e", "e", "m", "e", "n", "t", " ", "t", "e", "r", "m", "i", "n", "a", "t", "e", "s", " ", "w", "i", "t", "h", " ", "3", "0", " ", "d", "a", "y", "s", " ", "n", "o", "t", "i", "c", "e", ".">>

SegDocs == Concats(SegPieces, MaxSegPieces) \cup {SegmentationExample}

(***************************************************************************)
(* Segmentation: a document is split, the sections are joined again        *)
(***************************************************************************)

Init ==
    /\ original_text \in SegDocs
    /\ new_clause_text = <<>>
    /\ sections = <<>>
    /\ result_text = <<>>
    /\ history = <<>>
    /\ MatcherIdle /\ FlaggerIdle /\ RiskIdle /\ StoreIdle
    /\ pc = "start"

SplitIntoSections ==
    /\ pc = "start"
    /\ sections' = split_into_sections(original_text)
    /\ pc' = "split"
    /\ UNCHANGED <<original_text, new_clause_text, result_text, history>>
    /\ UNCHANGED <<matcher_vars, flagger_vars, risk, store_vars>>

SectionsToText ==
    /\ pc = "split"
    /\ result_text' = sections_to_text(sections)
    /\ pc' = "joined"
    /\ UNCHANGED <<original_text, new_clause_text, sections, history>>
    /\ UNCHANGED <<matcher_vars, flagger_vars, risk, store_vars>>

Next == SplitIntoSections \/ SectionsToText

Spec == Init /\ [][Next]_vars

(***************************************************************************)
(* Injection: a clause is injected into a document                         *)
(***************************************************************************)

\* a line in lower case
LowerCase(s) ==
    [i \in 1..Len(s) |->
        IF s[i] \in Range(UpperLetters)
        THEN LowerLetters[CHOOSE j \in 1..Len(UpperLetters) : UpperLetters[j] = s[i]]
        ELSE s[i]]

\* one line matching each anchor pattern, as a contract may spell it
AnchorLines ==
    << W_THIS \o <<" ">> \o W_IS \o <<" ">> \o W_A \o <<" ">> \o W_SAMPLE,
       W_USER \o <<" ">> \o W_GUIDE,
       W_TERM \o <<" ">> \o W_AND \o <<" ">> \o W_TERMINATION,
       W_WARRANTIES,
       W_LIMITATION \o <<" ">> \o W_OF \o <<" ">> \o W_LIABILITY,
       W_GENERAL \o <<" ">> \o W_PROVISIONS,
       W_INDEMNIFICATION,
       W_IN \o <<" ">> \o W_WITNESS \o <<" ">> \o W_WHEREOF,
       W_SIGNATURE \o <<"s">>,
       LowerCase(W_ANNEXES),
       W_GENERAL \o <<" ">> \o W_RECOMMENDATIONS >>

\* the pieces documents are assembled from: content, a section number,
\* whitespace, and the USER GUIDE and WARRANTIES lines
InjectPieces ==
    { <<"A">>, <<"1", ".">>, <<" ">>, <<"\n">>,
      AnchorLines[2], AnchorLines[4] }

\* longest assembled document, in pieces
MaxInjectPieces == 4

\* every two anchor lines, in either order, one above the other
AnchorPairs ==
    {AnchorLines[j] \o NL \o AnchorLines[k] :
        j \in 1..Len(AnchorLines), k \in 1..Len(AnchorLines)}

\* the document and the clause of the injection example
InjectionExample == <<"A", "\n", "\n", "T", "E", "R", "M", " ", "A", "N", "D", " ", "T", "E", "R", "M", "I", "N", "A", "T", "I", "O", "N", "\n", "B">>

NewClause == <<"N", "E", "W", " ", "C", "L", "A", "U", "S", "E">>

\* a template tail: user guide, warranties, then the sample marker
TemplateTail ==
    AnchorLines[2] \o NL \o AnchorLines[4] \o NL \o AnchorLines[1]

InjectDocs ==
    Concats(InjectPieces, MaxInjectPieces) \cup AnchorPairs
        \cup {InjectionExample, TemplateTail}

Clauses == {NewClause, <<"c">>}

InitInject ==
    /\ original_text \in InjectDocs
    /\ new_clause_text = <<>>
    /\ sections = <<>>
    /\ result_text = <<>>
    /\ history = <<>>
    /\ MatcherIdle /\ FlaggerIdle /\ RiskIdle /\ StoreIdle
    /\ pc = "start"

InjectClauseSmartly ==
    /\ pc = "start"
    /\ \E clause \in Clauses :
           /\ new_clause_text' = clause
           /\ result_text' = inject_clause_smartly(original_text, clause)
    /\ pc' = "injected"
    /\ UNCHANGED <<original_text, sections, history>>
    /\ UNCHANGED <<matcher_vars, flagger_vars, risk, store_vars>>

NextInject == InjectClauseSmartly

SpecInject == InitInject /\ [][NextInject]_vars

(***************************************************************************)
(* Anchors as the specification describes them: each pattern read left to  *)
(* right, every run of whitespace or digits taken whole.                   *)
(***************************************************************************)

\* the words of each anchor, in priority order
AnchorWords ==
    << <<W_THIS, W_IS, W_A, W_SAMPLE>>,
       <<W_USER, W_GUIDE>>,
       <<W_TERM, W_AND, W_TERMINATION>>,
       <<W_WARRANTIES>>,
       <<W_LIMITATION, W_OF, W_LIABILITY>>,
       <<W_GENERAL, W_PROVISIONS>>,
       <<W_INDEMNIFICATION>>,
       <<W_IN, W_WITNESS, W_WHEREOF>>,
       <<W_SIGNATURE>>,
       <<W_ANNEXES>>,
       <<W_GENERAL, W_RECOMMENDATIONS>> >>

\* the anchors that may carry a section number
NumberedAnchors == {k \in 1..Len(AnchorWords) : AnchorWords[k][1] \in {W_TERM, W_WARRANTIES, W_LIMITATION, W_INDEMNIFICATION} \/ AnchorWords[k] = <<W_GENERAL, W_PROVISIONS>>}

SampleAnchor == CHOOSE k \in 1..Len(AnchorWords) : AnchorWords[k][1] = W_THIS

UserGuideAnchor == CHOOSE k \in 1..Len(AnchorWords) : AnchorWords[k][1] = W_USER

WarrantiesAnchor == CHOOSE k \in 1..Len(AnchorWords) : AnchorWords[k][1] = W_WARRANTIES

Min(S) == CHOOSE x \in S : \A y \in S : x <= y

\* the offset at which the run of cls characters starting at offset i ends
RunEnd(t, i, cls) ==
    CHOOSE j \in i..Len(t) :
        /\ \A n \in (i + 1)..j : t[n] \in cls
        /\ j = Len(t) \/ t[j + 1] \notin cls

SameLetter(a, b) ==
    \/ a = b
    \/ \E n \in 1..Len(UpperLetters) : {a, b} = {UpperLetters[n], LowerLetters[n]}

WordAt(w, t, i) ==
    /\ i + Len(w) <= Len(t)
    /\ \A n \in 1..Len(w) : SameLetter(t[i + n], w[n])

RECURSIVE PhraseAt(_, _, _)
PhraseAt(words, t, i) ==
    /\ WordAt(words[1], t, i)
    /\ \/ Len(words) = 1
       \/ LET j == i + Len(words[1])
              e == RunEnd(t, j, Whitespace)
          IN  e > j /\ PhraseAt(Tail(words), t, e)

\* anchor k stands at the line start i: after optional
\* whitespace (and, for a numbered anchor, an optional number, dot and
\* whitespace) the anchor's words follow
AnchorAt(k, t, i) ==
    LET a == RunEnd(t, i, Whitespace)
        d == RunEnd(t, a, Digits)
        e == IF d < Len(t) /\ t[d + 1] = "." THEN d + 1 ELSE d
        b == IF k \in NumberedAnchors THEN RunEnd(t, e, Whitespace) ELSE a
    IN  PhraseAt(AnchorWords[k], t, b)

\* the offsets at which a line starts
LineStarts(t) == {i \in 0..Len(t) : i = 0 \/ t[i] = "\n"}

AnchorOffsets(k, t) == {i \in LineStarts(t) : AnchorAt(k, t, i)}

MatchingAnchors(t) == {k \in 1..Len(AnchorWords) : AnchorOffsets(k, t) # {}}

\* the Anchor Locator: the first offset of the first anchor, in priority
\* order, that occurs in t; -1 when none occurs
AnchorLocator(t) ==
    IF MatchingAnchors(t) = {} THEN -1
    ELSE Min(AnchorOffsets(Min(MatchingAnchors(t)), t))

\* s without its trailing whitespace
RTrim(s) ==
    SubSeq(s, 1, CHOOSE n \in 0..Len(s) :
                     /\ n = 0 \/ s[n] \notin Whitespace
                     /\ \A m \in (n + 1)..Len(s) : s[m] \in Whitespace)

\* s without any whitespace
RECURSIVE NonWs(_)
NonWs(s) ==
    IF s = <<>> THEN <<>>
    ELSE (IF s[1] \in Whitespace THEN <<>> ELSE <<s[1]>>) \o NonWs(Tail(s))

\* the characters of a occur in b, in order
RECURSIVE IsSubsequence(_, _)
IsSubsequence(a, b) ==
    IF a = <<>> THEN TRUE
    ELSE IF b = <<>> THEN FALSE
    ELSE IF a[1] = b[1] THEN IsSubsequence(Tail(a), Tail(b))
    ELSE IsSubsequence(a, Tail(b))

EndsWith(s, suffix) ==
    Len(suffix) <= Len(s) /\ SubSeq(s, Len(s) - Len(suffix) + 1, Len(s)) = suffix

StartsWith(s, prefix) ==
    Len(prefix) <= Len(s) /\ SubSeq(s, 1, Len(prefix)) = prefix

Injected == pc = "injected"

(***************************************************************************)
(* Claims about inject_clause_smartly (SpecInject)                         *)
(***************************************************************************)

InjectionExpected == <<"A", "\n", "\n", "N", "E", "W", " ", "C", "L", "A", "U", "S", "E", "\n", "\n", "T", "E", "R", "M", " ", "A", "N", "D", " ", "T", "E", "R", "M", "I", "N", "A", "T", "I", "O", "N", "\n", "B">>

\* C1: injecting "NEW CLAUSE" into "A\n\nTERM AND TERMINATION\nB" returns
\* exactly "A\n\nNEW CLAUSE\n\nTERM AND TERMINATION\nB": one blank line on
\* each side of the clause and no extra newline before the anchor line.
C1_InjectionExactness ==
    (Injected /\ original_text = InjectionExample /\ new_clause_text = NewClause)
        => result_text = InjectionExpected

\* C3: the result is rtrim(original[:p]) + "\n\n" + clause + "\n\n" +
\* original[p:] when the Anchor Locator finds offset p, and
\* original + "\n\n" + clause when no anchor pattern matches.
C3_InjectionComposition ==
    Injected =>
        LET p == AnchorLocator(original_text) IN
        result_text =
            IF p = -1
            THEN original_text \o NLNL \o new_clause_text
            ELSE RTrim(Slice(original_text, 0, p)) \o NLNL \o new_clause_text
                     \o NLNL \o Slice(original_text, p, Len(original_text))

\* C3 witness: a clause was injected at an anchor whose prefix ended in
\* whitespace that the right-trim removed.
C3_Witness ==
    /\ Injected
    /\ AnchorLocator(original_text) > 0
    /\ RTrim(Slice(original_text, 0, AnchorLocator(original_text)))
           # Slice(original_text, 0, AnchorLocator(original_text))
    /\ RTrim(Slice(original_text, 0, AnchorLocator(original_text))) # <<>>

\* the whitespace the right-trim of the prefix removes
TrimmedCount(t, p) == p - Len(RTrim(Slice(t, 0, p)))

\* C4 as stated: no original character is dropped or corrupted, and the
\* output is at least len(original) + len(clause) + 4 characters long.
C4_NoCharacterDropped ==
    Injected =>
        /\ IsSubsequence(original_text, result_text)
        /\ Len(result_text) >= Len(original_text) + Len(new_clause_text) + 4

\* C4 as amended: no original character other than whitespace is dropped
\* or corrupted - the original's characters that are not whitespace, with
\* the clause's inserted at the insertion point, are the result's - and the
\* output length is len(original) + len(clause) + 4 less the whitespace
\* trimmed from the end of the prefix when an anchor is found, and
\* len(original) + len(clause) + 2 when none is found.
C4_NoContentDropped ==
    Injected =>
        LET p == AnchorLocator(original_text)
            q == IF p = -1 THEN Len(original_text) ELSE p
        IN  /\ NonWs(result_text) =
                   NonWs(Slice(original_text, 0, q)) \o NonWs(new_clause_text)
                       \o NonWs(Slice(original_text, q, Len(original_text)))
            /\ IsSubsequence(RTrim(Slice(original_text, 0, q)), result_text)
            /\ EndsWith(result_text, Slice(original_text, q, Len(original_text)))
            /\ Len(result_text) =
                   IF p = -1
                   THEN Len(original_text) + Len(new_clause_text) + 2
                   ELSE Len(original_text) + Len(new_clause_text) + 4
                            - TrimmedCount(original_text, p)

\* C4 witness: an injection at an anchor that trimmed whitespace, so that
\* the output is shorter than len(original) + len(clause) + 4.
C4_Witness ==
    /\ Injected
    /\ AnchorLocator(original_text) # -1
    /\ TrimmedCount(original_text, AnchorLocator(original_text)) > 1
    /\ Len(result_text) < Len(original_text) + Len(new_clause_text) + 4

\* the clause stands in the result right before original[p:]
InsertedBefore(p) ==
    EndsWith(result_text,
             NLNL \o new_clause_text \o NLNL \o Slice(original_text, p, Len(original_text)))

\* strict priority: the insertion point is the first offset of the first
\* anchor of the ordered list that occurs anywhere in the text
StrictPriority ==
    LET matching == MatchingAnchors(original_text) IN
    \A k \in matching :
        (\A j \in 1..(k - 1) : j \notin matching)
            => InsertedBefore(Min(AnchorOffsets(k, original_text)))

\* C5 as stated: strict priority, and in particular any document with both
\* a USER GUIDE line and a WARRANTIES line gets the clause before USER
\* GUIDE.
C5_AnchorPriority ==
    Injected =>
        /\ StrictPriority
        /\ {UserGuideAnchor, WarrantiesAnchor} \subseteq MatchingAnchors(original_text)
               => \E p \in 0..Min(AnchorOffsets(UserGuideAnchor, original_text)) :
                      InsertedBefore(p)

\* C5 as amended: strict priority, and in particular a document with both a
\* USER GUIDE line and a WARRANTIES line and no sample-marker line gets the
\* clause right before its first USER GUIDE line, never before WARRANTIES.
C5_AnchorPriorityNoSample ==
    Injected =>
        /\ StrictPriority
        /\ ( /\ {UserGuideAnchor, WarrantiesAnchor} \subseteq MatchingAnchors(original_text)
             /\ SampleAnchor \notin MatchingAnchors(original_text) )
               => /\ InsertedBefore(Min(AnchorOffsets(UserGuideAnchor, original_text)))
                  /\ \A p \in AnchorOffsets(WarrantiesAnchor, original_text) :
                         p # Min(AnchorOffsets(UserGuideAnchor, original_text))
                             => ~InsertedBefore(p)

\* C5 witness: WARRANTIES stands earlier in the document than USER GUIDE,
\* there is no sample marker, and the clause went before USER GUIDE.
C5_Witness ==
    /\ Injected
    /\ {UserGuideAnchor, WarrantiesAnchor} \subseteq MatchingAnchors(original_text)
    /\ SampleAnchor \notin MatchingAnchors(original_text)
    /\ Min(AnchorOffsets(WarrantiesAnchor, original_text))
           < Min(AnchorOffsets(UserGuideAnchor, original_text))
    /\ InsertedBefore(Min(AnchorOffsets(UserGuideAnchor, original_text)))

\* C8: when no anchor pattern matches, the clause appears strictly after
\* all original content, separated from the last original content by
\* exactly one blank line.
C8_FallbackOneBlankLine ==
    (Injected /\ AnchorLocator(original_text) = -1) =>
        LET content == RTrim(original_text)
            gap == Slice(result_text, Len(content), Len(result_text) - Len(new_clause_text))
        IN  /\ StartsWith(result_text, original_text)
            /\ EndsWith(result_text, new_clause_text)
            /\ Len(result_text) >= Len(original_text) + Len(new_clause_text)
            /\ content # <<>> => Len(splitlines(<<"x">> \o gap \o <<"x">>)) = 3

(***************************************************************************)
(* Claims about split_into_sections and sections_to_text (Spec)            *)
(***************************************************************************)

PreambleText == <<"P", "R", "E", "A", "M", "B", "L", "E", " ", "T", "E", "X", "T">>

TermAndTermination == <<"T", "E", "R", "M", " ", "A", "N", "D", " ", "T", "E", "R", "M", "I", "N", "A", "T", "I", "O", "N">>

TerminatesBody == <<"T", "h", "i", "s", " ", "a", "g", "r", "e", "e", "m", "e", "n", "t", " ", "t", "e", "r", "m", "i", "n", "a", "t", "e", "s", " ", "w", "i", "t", "h", " ", "3", "0", " ", "d", "a", "y", "s", " ", "n", "o", "t", "i", "c", "e", ".">>

SubBullet == <<"1", ".", " ", "C", "o", "n", "f", "i", "d", "e", "n", "t", "i", "a", "l", "i", "t", "y", ":">>

WasSplit == pc \in {"split", "joined"}

RECURSIVE NonBlank(_)
NonBlank(lines) ==
    IF lines = <<>> THEN <<>>
    ELSE (IF strip(lines[1]) = <<>> THEN <<>> ELSE <<strip(lines[1])>>)
             \o NonBlank(Tail(lines))

ContentLines(t) == NonBlank(splitlines(t))

\* each section's heading (but the initial "Preamble" placeholder) followed
\* by the content lines of its body, from section i on
RECURSIVE SectionContent(_, _)
SectionContent(secs, i) ==
    IF i > Len(secs) THEN <<>>
    ELSE (IF i = 1 /\ secs[i][1] = Preamble THEN <<>> ELSE <<secs[i][1]>>)
             \o ContentLines(secs[i][2])
             \o SectionContent(secs, i + 1)

\* C6: the sections' headings and body lines, in order, are exactly the
\* non-blank lines of the document: no line, and no heading line, is lost
\* or reordered.
C6_ContentPreserved ==
    WasSplit => SectionContent(sections, 1) = ContentLines(original_text)

\* sub occurs in text
Contains(text, sub) ==
    \E i \in 0..(Len(text) - Len(sub)) : SubSeq(text, i + 1, i + Len(sub)) = sub

\* C7 as stated: every heading of the split document reappears verbatim
\* in the reassembled text.
C7_EveryHeadingReappears ==
    pc = "joined" =>
        \A i \in 1..Len(sections) : Contains(result_text, sections[i][1])

\* C7 as amended: every heading of the split document other than the
\* "Preamble" placeholder reappears verbatim in the reassembled text.
C7_DetectedHeadingsReappear ==
    pc = "joined" =>
        \A i \in 1..Len(sections) :
            sections[i][1] # Preamble => Contains(result_text, sections[i][1])

\* C7 witness: a reassembled document with a Preamble section and a
\* detected heading that has no body.
C7_Witness ==
    /\ pc = "joined"
    /\ Len(sections) > 1
    /\ sections[1][1] = Preamble
    /\ \E i \in 2..Len(sections) : sections[i][2] = <<>>

\* the characters a heading may consist of
HeadingAlphabet ==
    {"A", "B", "C", "D", "E", "F", "G", "H", "I", "J", "K", "L", "M",
     "N", "O", "P", "Q", "R", "S", "T", "U", "V", "W", "X", "Y", "Z",
     "0", "1", "2", "3", "4", "5", "6", "7", "8", "9",
     " ", "-", "&", "(", ")", ","}

\* the rule of the Heading Classifier
HeadingRule(s) == Len(s) >= 3 /\ \A i \in 1..Len(s) : s[i] \in HeadingAlphabet

\* the lines of a text as the classifier sees them
TrimmedLines(t) ==
    LET raw == splitlines(t) IN [i \in 1..Len(raw) |-> strip(raw[i])]

\* the last line of a text that satisfies the rule, "Preamble" when none does
LastHeading(t) ==
    LET lines == TrimmedLines(t)
        at == {i \in 1..Len(lines) : HeadingRule(lines[i])}
    IN  IF at = {} THEN Preamble
        ELSE lines[CHOOSE i \in at : \A j \in at : j <= i]

\* C9: a trimmed line is classified as a heading iff it is at least 3
\* characters long and consists of upper-case letters, digits, spaces and
\* - & ( ) , only; empty lines, lines with a lower-case letter and
\* "1. Confidentiality:" are never headings; the segmenter starts a section
\* at exactly the lines so classified.
C9_HeadingClassifier ==
    /\ \A s \in Range(TrimmedLines(original_text)) \cup {SubBullet, <<>>} :
           /\ HEADING_RE(s) <=> HeadingRule(s)
           /\ (s = <<>> \/ \E i \in 1..Len(s) : s[i] \in Range(LowerLetters))
                  => ~HEADING_RE(s)
    /\ ~HEADING_RE(SubBullet)
    /\ WasSplit => sections[Len(sections)][1] = LastHeading(original_text)

\* C9 witness: a split document with a line classified as a heading, a line
\* of heading characters that is too short, and a line of three or more
\* characters that has another character.
C9_Witness ==
    /\ pc = "split"
    /\ \E s \in Range(TrimmedLines(original_text)) : HEADING_RE(s)
    /\ \E s \in Range(TrimmedLines(original_text)) :
           /\ s # <<>>
           /\ ~HEADING_RE(s)
           /\ \/ Len(s) < 3 /\ \A i \in 1..Len(s) : s[i] \in HeadingAlphabet
              \/ Len(s) >= 3

\* C10: split_into_sections never fails and returns at least one section
\* for any text; the empty text yields exactly ("Preamble", "").
C10_AtLeastOneSection ==
    WasSplit =>
        /\ Len(sections) >= 1
        /\ \A i \in 1..Len(sections) : Len(sections[i]) = 2
        /\ original_text = <<>> => sections = << <<Preamble, <<>>>> >>

\* C10 witness: the empty text has been split into its one section.
C10_Witness ==
    /\ pc = "split"
    /\ original_text = <<>>
    /\ sections = << <<Preamble, <<>>>> >>

(***************************************************************************)
(* match_regulation_to_contract                                            *)
(*                                                                         *)
(* A regulation record is a function from field names to values; a record  *)
(* read from the store may lack any field.                                 *)
(***************************************************************************)

\* the lower-case letter of every upper-case letter
ToLower ==
    [c \in Range(UpperLetters) |->
        LowerLetters[CHOOSE j \in 1..Len(UpperLetters) : UpperLetters[j] = c]]

\* s.lower()
lower(s) == [i \in 1..Len(s) |-> IF s[i] \in DOMAIN ToLower THEN ToLower[s[i]] ELSE s[i]]

\* sub in s
In(sub, s) == \E i \in 0..(Len(s) - Len(sub)) : Slice(s, i, i + Len(sub)) = sub

\* d.get(field, default)
get(d, field, default) == IF field \in DOMAIN d THEN d[field] ELSE default

\* the test with the case kept
KeywordFound_cased(kw, t) == In(kw, t)

\* kw.lower() in text.lower()
KeywordFound(kw, t) == In(lower(kw), lower(t))

\* the loop ended at the first keyword that is not found
RECURSIVE MatchesUntilMiss(_, _, _)
MatchesUntilMiss(keywords, t, i) ==
    IF i > Len(keywords) THEN <<>>
    ELSE IF KeywordFound(keywords[i], t)
         THEN <<keywords[i]>> \o MatchesUntilMiss(keywords, t, i + 1)
         ELSE <<>>

\* the loop over the keywords from the i-th on: the keywords appended to
\* matches
RECURSIVE MatchesFrom(_, _, _)
MatchesFrom(keywords, t, i) ==
    IF i > Len(keywords) THEN <<>>
    ELSE (IF KeywordFound(keywords[i], t) THEN <<keywords[i]>> ELSE <<>>)
             \o MatchesFrom(keywords, t, i + 1)

\* returns <<score, matches>>
match_regulation_to_contract(r, t) ==
    LET ms == MatchesFrom(get(r, "keywords", <<>>), t, 1)
    IN  <<Len(ms) * 2, ms>>

(***************************************************************************)
(* Matching: a regulation is matched against a contract text               *)
(***************************************************************************)

Notice == <<"n", "o", "t", "i", "c", "e">>

\* the keywords regulations are made of
KeywordPool == { <<"a">>, <<"A", "b">>, <<"B", " ", "a">>, Notice }

\* most keywords of a regulation
MaxKeywords == 3

\* the pieces contract texts are assembled from
MatchPieces == { <<"a">>, <<"B">>, <<" ">> }

\* longest assembled contract text, in pieces
MaxMatchPieces == 3

\* a text with one keyword three times, in three spellings
NoticeText ==
    <<"N", "o", "t", "i", "c", "e">> \o <<" ">> \o <<"o", "f", " ">>
        \o <<"N", "O", "T", "I", "C", "E">> \o <<" ">> \o <<"a", "b", " ">> \o Notice

MatchTexts == Concats(MatchPieces, MaxMatchPieces) \cup {NoticeText}

RegTitle == <<"R">>

\* regulation records with keywords, and one without the field
Regulations ==
    {[title |-> RegTitle, keywords |-> ks] : ks \in Concats({<<kw>> : kw \in KeywordPool}, MaxKeywords)}
        \cup {[title |-> RegTitle]}

InitMatch ==
    /\ reg \in Regulations
    /\ current_text \in MatchTexts
    /\ score = 0
    /\ matches = <<>>
    /\ TextIdle /\ FlaggerIdle /\ RiskIdle /\ StoreIdle
    /\ pc = "start"

MatchRegulationToContract ==
    /\ pc = "start"
    /\ LET result == match_regulation_to_contract(reg, current_text)
       IN  /\ score' = result[1]
           /\ matches' = result[2]
    /\ pc' = "matched"
    /\ UNCHANGED <<reg, current_text>>
    /\ UNCHANGED <<text_vars, flagger_vars, risk, store_vars>>

NextMatch == MatchRegulationToContract

SpecMatch == InitMatch /\ [][NextMatch]_vars

(***************************************************************************)
(* Claims about match_regulation_to_contract (SpecMatch)                   *)
(***************************************************************************)

Matched == pc = "matched"

\* kw occurs in t at offset i, letter case aside
OccursAt(kw, t, i) ==
    /\ i + Len(kw) <= Len(t)
    /\ \A j \in 1..Len(kw) : SameLetter(kw[j], t[i + j])

Occurrences(kw, t) == {i \in 0..Len(t) : OccursAt(kw, t, i)}

\* the keywords of a record, none when the record has no such field
KeywordsOf(r) == IF "keywords" \in DOMAIN r THEN r.keywords ELSE <<>>

\* the positions of the keywords of r that occur in t
Present(r, t) == {k \in 1..Len(KeywordsOf(r)) : Occurrences(KeywordsOf(r)[k], t) # {}}

\* the n-th position of S, in increasing order
Nth(S, n) == CHOOSE k \in S : Cardinality({m \in S : m < k}) = n - 1

\* C11: match_regulation_to_contract returns (2 * n, matched): matched is
\* the keywords of the regulation that occur in the text as
\* case-insensitive substrings, in the regulation's keyword order, n is its
\* length, and a keyword counts once however often it occurs.
C11_MatchResult ==
    Matched =>
        LET found == Present(reg, current_text)
        IN  /\ score = 2 * Cardinality(found)
            /\ Len(matches) = Cardinality(found)
            /\ \A n \in 1..Len(matches) : matches[n] = KeywordsOf(reg)[Nth(found, n)]

\* C11 witness: a match with a keyword that occurs several times, in a
\* spelling of another case, a keyword that is missing between two that are
\* found, and the found ones listed in the regulation's order.
C11_Witness ==
    /\ Matched
    /\ Len(KeywordsOf(reg)) = 3
    /\ Present(reg, current_text) = {1, 3}
    /\ Cardinality(Occurrences(KeywordsOf(reg)[1], current_text)) > 1
    /\ ~In(KeywordsOf(reg)[3], current_text)
    /\ score = 4
    /\ matches = <<KeywordsOf(reg)[1], KeywordsOf(reg)[3]>>

\* s with x put in after its first p elements
InsertAt(s, p, x) == SubSeq(s, 1, p) \o <<x>> \o SubSeq(s, p + 1, Len(s))

\* s without its k-th element
RemoveAt(s, k) == SubSeq(s, 1, k - 1) \o SubSeq(s, k + 1, Len(s))

\* the record r with ks as its keywords
WithKeywords(r, ks) ==
    [f \in DOMAIN r \cup {"keywords"} |-> IF f = "keywords" THEN ks ELSE r[f]]

ScoreOf(r, t) == match_regulation_to_contract(r, t)[1]

\* C12: matcher monotonicity: against a given text, a regulation with one
\* more keyword, put anywhere among its keywords and present in the text,
\* never scores less, and a regulation with one keyword removed never
\* scores more.
C12_MatcherMonotone ==
    Matched =>
        /\ \A kw \in KeywordPool, p \in 0..Len(KeywordsOf(reg)) :
               Occurrences(kw, current_text) # {} =>
                   ScoreOf(WithKeywords(reg, InsertAt(KeywordsOf(reg), p, kw)), current_text) >= score
        /\ \A k \in 1..Len(KeywordsOf(reg)) :
               ScoreOf(WithKeywords(reg, RemoveAt(KeywordsOf(reg), k)), current_text) <= score

\* C12 witness: a matched regulation with a keyword that is found after one
\* that is not, so that a keyword can be removed on either side of a miss,
\* and a text with a keyword the regulation does not have yet.
C12_Witness ==
    /\ Matched
    /\ Len(KeywordsOf(reg)) >= 2
    /\ 1 \notin Present(reg, current_text)
    /\ 2 \in Present(reg, current_text)
    /\ \E kw \in KeywordPool :
           /\ Occurrences(kw, current_text) # {}
           /\ kw \notin Range(KeywordsOf(reg))

(***************************************************************************)
(* The regulation store and the operations that read it                    *)
(*                                                                         *)
(* The store is the JSON file REGS_FILE: absent, an array of regulation    *)
(* records or an object of records keyed by id, in the order of the file.  *)
(* The contract index is an object of contracts keyed by id, each given    *)
(* here with the text of its current file.  A call returns a record with   *)
(* the exception it raised, None when it returned.                         *)
(***************************************************************************)

\* no file
NoFile == [shape |-> "absent"]

\* a JSON array
List(items) == [shape |-> "list", items |-> items]

\* a JSON object: its keys in file order and the value of each
Dict(ids, items) == [shape |-> "dict", ids |-> ids, items |-> items]

Return(v) == [exc |-> None, value |-> v]

Raise(e) == [exc |-> e, value |-> None]

\* utils.read_json
read_json(file) == IF file.shape = "absent" THEN Raise("FileNotFoundError") ELSE Return(file)

\* the regulations of mock_fetch_regulations, in the order of options; of
\* their fields the id is given without its time stamp, and
\* date_published, summary and source_url, which no operation reads, are
\* left out

PrivacyRule ==
    [id |-> "reg-privacy", title |-> "New Data Privacy Transparency Rule", jurisdiction |-> "GLOBAL",
     keywords |->
       <<<<"p", "r", "i", "v", "a", "c", "y">>,
         <<"t", "r", "a", "n", "s", "p", "a", "r", "e", "n", "c", "y">>,
         <<"p", "r", "o", "f", "i", "l", "i", "n", "g">>,
         <<"n", "o", "t", "i", "c", "e">>,
         <<"p", "e", "r", "s", "o", "n", "a", "l", " ", "d", "a", "t", "a">>>>]

AiAct ==
    [id |-> "reg-ai", title |-> "AI Algorithmic Accountability Act", jurisdiction |-> "EU",
     keywords |->
       <<<<"a", "r", "t", "i", "f", "i", "c", "i", "a", "l", " ", "i", "n", "t", "e", "l", "l", "i", "g", "e", "n", "c", "e">>,
         <<"a", "u", "t", "o", "m", "a", "t", "e", "d", " ", "d", "e", "c", "i", "s", "i", "o", "n">>,
         <<"a", "l", "g", "o", "r", "i", "t", "h", "m">>,
         <<"t", "e", "r", "m", "i", "n", "a", "t", "e">>>>]

LiabilityStandard ==
    [id |-> "reg-liab", title |-> "Digital Services Liability Standard", jurisdiction |-> "USA",
     keywords |->
       <<<<"l", "i", "a", "b", "i", "l", "i", "t", "y">>,
         <<"i", "n", "d", "e", "m", "n", "i", "f", "i", "c", "a", "t", "i", "o", "n">>,
         <<"d", "a", "m", "a", "g", "e", "s">>,
         <<"u", "n", "l", "i", "m", "i", "t", "e", "d">>>>]

options == <<PrivacyRule, AiAct, LiabilityStandard>>

PrivacyText == <<"N", "o", "t", "i", "c", "e", " ", "o", "f", " ", "P", "r", "i", "v", "a", "c", "y">>

LiabilityText == <<"U", "n", "l", "i", "m", "i", "t", "e", "d", " ", "l", "i", "a", "b", "i", "l", "i", "t", "y", " ", "a", "n", "d", " ", "d", "a", "m", "a", "g", "e", "s">>

TerminateText == <<"T", "h", "e", " ", "a", "l", "g", "o", "r", "i", "t", "h", "m", " ", "m", "a", "y", " ", "t", "e", "r", "m", "i", "n", "a", "t", "e">>

\* the flagging at any score, zero included
Flagged_nonneg(s) == s >= 0

\* if score > 0
Flagged(s) == s > 0

\* the compliance audit: the store as a list of records
AuditIterator(store) ==
    IF store.shape = "dict" THEN store.items
    ELSE IF store.shape = "list" THEN store.items
    ELSE <<>>

\* the compliance audit: the loop over the records from the i-th on, the
\* pairs appended to violations
RECURSIVE AuditLoop(_, _, _)
AuditLoop(iterator, t, i) ==
    IF i > Len(iterator) THEN <<>>
    ELSE LET result == match_regulation_to_contract(iterator[i], t)
         IN  (IF Flagged(result[1]) THEN << <<iterator[i], result[2]>> >> ELSE <<>>)
                 \o AuditLoop(iterator, t, i + 1)

\* the compliance audit of the contract text t
ComplianceAuditOf(file, t) ==
    LET read == read_json(file)
    IN  IF read.exc # None THEN read
        ELSE Return(AuditLoop(AuditIterator(read.value), t, 1))

\* the loop over the contracts of the index from the i-th on, the entries
\* appended to affected_contracts
RECURSIVE ScanLoop(_, _, _)
ScanLoop(r, index, i) ==
    IF i > Len(index) THEN <<>>
    ELSE LET contract == index[i]
             result == match_regulation_to_contract(r, contract.text)
         IN  (IF contract.text # <<>> /\ Flagged(result[1])
              THEN <<[id |-> contract.id, version |-> contract.version,
                      text |-> contract.text, matches |-> result[2]]>>
              ELSE <<>>)
                 \o ScanLoop(r, index, i + 1)

scan_contracts_for_regulation(r, index) == ScanLoop(r, index, 1)

\* the regulation list of the monitor page: every record of the store with
\* the contracts it affects
MonitorListingOf(file, index) ==
    LET read == read_json(file)
    IN  IF read.exc # None THEN read
        ELSE LET store == read.value
             IN  Return([i \in 1..Len(store.items) |->
                            <<store.items[i], scan_contracts_for_regulation(store.items[i], index)>>])

\* existing_titles = [r["title"] for r in regs]: over an object the loop
\* runs over its keys, which are strings
existing_titles(store) ==
    IF store.shape = "dict"
    THEN IF store.ids # <<>> THEN Raise("TypeError") ELSE Return(<<>>)
    ELSE IF \E i \in 1..Len(store.items) : "title" \notin DOMAIN store.items[i]
         THEN Raise("KeyError")
         ELSE Return([i \in 1..Len(store.items) |-> store.items[i].title])

\* NewReg as a bug would have it: the loop without its break, which leaves
\* the last option whose title is not stored yet
NewReg_last(titles) ==
    IF \A k \in 1..Len(options) : options[k].title \in Range(titles) THEN 0
    ELSE CHOOSE k \in 1..Len(options) :
             /\ options[k].title \notin Range(titles)
             /\ \A j \in (k + 1)..Len(options) : options[j].title \in Range(titles)

\* the place in options of the first whose title is not stored yet, 0 when
\* all are
NewReg(titles) ==
    IF \A k \in 1..Len(options) : options[k].title \in Range(titles) THEN 0
    ELSE CHOOSE k \in 1..Len(options) :
             /\ options[k].title \notin Range(titles)
             /\ \A j \in 1..(k - 1) : options[j].title \in Range(titles)

\* mock_fetch_regulations: the call's outcome, the store it leaves, and
\* the place in options of the regulation it returned (0 when it returned
\* None or raised)
mock_fetch_regulations(file) ==
    LET read == read_json(file)
    IN  IF read.exc # None THEN [call |-> read, file |-> file, new_reg |-> 0]
        ELSE LET store == read.value
                 titles == existing_titles(store)
             IN  IF titles.exc # None THEN [call |-> titles, file |-> file, new_reg |-> 0]
                 ELSE LET new_reg == NewReg(titles.value)
                      IN  IF new_reg = 0 THEN [call |-> Return(None), file |-> file, new_reg |-> 0]
                          ELSE IF store.shape # "list"
                               THEN [call |-> Raise("AttributeError"), file |-> file, new_reg |-> 0]
                               ELSE [call |-> Return(options[new_reg]),
                                     file |-> List(Append(store.items, options[new_reg])),
                                     new_reg |-> new_reg]

\* what Home.ensure_dirs writes when there is no store
HomeRegs ==
    Dict(<<"reg_1", "reg_2">>, <<[name |-> "GDPR"], [name |-> "CCPA"]>>)

(***************************************************************************)
(* The pages: the store is created, audited, listed and extended           *)
(***************************************************************************)

\* a regulation record without keywords, as a hand-written store may hold
NoKeywordsRule == [id |-> "reg-0", title |-> "Rule Without Keywords", jurisdiction |-> "EU"]

\* the stores a session may find
Stores ==
    { NoFile,
      List(<<>>),
      List(<<PrivacyRule>>),
      List(<<NoKeywordsRule, LiabilityStandard>>),
      List(<<PrivacyRule, AiAct, LiabilityStandard>>),
      Dict(<<>>, <<>>),
      Dict(<<"reg-ai", "reg-0">>, <<AiAct, NoKeywordsRule>>) }

StoreTexts == {<<>>, PrivacyText, LiabilityText, TerminateText}

\* most contracts of the index
MaxContracts == 1

\* the contract indexes of up to n contracts, each at its first version
RECURSIVE Indexes(_)
Indexes(n) ==
    IF n = 0 THEN {<<>>}
    ELSE LET fewer == Indexes(n - 1)
         IN  fewer \cup
             {Append(index, [id |-> Len(index) + 1, version |-> 1, text |-> t]) :
                 index \in {x \in fewer : Len(x) = n - 1}, t \in StoreTexts}

InitStore ==
    /\ regs \in Stores
    /\ contract_index \in Indexes(MaxContracts)
    /\ current_text \in StoreTexts
    /\ violations = <<>>
    /\ impacted = <<>>
    /\ raised = None
    /\ session = None
    /\ reg = None /\ score = 0 /\ matches = <<>>
    /\ TextIdle /\ FlaggerIdle /\ RiskIdle
    /\ pc = "start"

\* Home.ensure_dirs
HomeEnsureDirs ==
    /\ regs' = IF regs.shape = "absent" THEN HomeRegs ELSE regs
    /\ pc' = "home"
    /\ raised' = None
    /\ UNCHANGED <<contract_index, violations, impacted, session>>
    /\ UNCHANGED <<text_vars, matcher_vars, flagger_vars, risk>>

\* utils.ensure_dirs
UtilsEnsureDirs ==
    /\ regs' = IF regs.shape = "absent" THEN List(<<>>) ELSE regs
    /\ pc' = "upload"
    /\ raised' = None
    /\ UNCHANGED <<contract_index, violations, impacted, session>>
    /\ UNCHANGED <<text_vars, matcher_vars, flagger_vars, risk>>

\* the compliance audit tab of Contract_Analysis.py
ComplianceAudit ==
    /\ \E call \in {ComplianceAuditOf(regs, current_text)} :
           /\ raised' = call.exc
           /\ violations' = IF call.exc = None THEN call.value ELSE violations
    /\ pc' = "audit"
    /\ UNCHANGED <<regs, contract_index, impacted, session>>
    /\ UNCHANGED <<text_vars, matcher_vars, flagger_vars, risk>>

\* the regulation list of Regulation_Monitor.py
MonitorListing ==
    /\ \E call \in {MonitorListingOf(regs, contract_index)} :
           /\ raised' = call.exc
           /\ impacted' = IF call.exc = None THEN call.value ELSE impacted
    /\ pc' = "listing"
    /\ UNCHANGED <<regs, contract_index, violations, session>>
    /\ UNCHANGED <<text_vars, matcher_vars, flagger_vars, risk>>

\* the Fetch New Rules button of Regulation_Monitor.py
MockFetchRegulations ==
    /\ \E result \in {mock_fetch_regulations(regs)} :
           /\ raised' = result.call.exc
           /\ regs' = result.file
    /\ pc' = "fetch"
    /\ UNCHANGED <<contract_index, violations, impacted, session>>
    /\ UNCHANGED <<text_vars, matcher_vars, flagger_vars, risk>>

NextStore ==
    \/ HomeEnsureDirs
    \/ UtilsEnsureDirs
    \/ ComplianceAudit
    \/ MonitorListing
    \/ MockFetchRegulations

SpecStore == InitStore /\ [][NextStore]_vars

(***************************************************************************)
(* Claims about the regulation store and its readers (SpecStore)           *)
(***************************************************************************)

NoKeywords(r) == "keywords" \notin DOMAIN r

\* the records of a store, none when there is no file
RecordsOf(file) == IF file.shape = "absent" THEN <<>> ELSE file.items

\* C13: a regulation record with no keywords field is treated as having no
\* keywords: match_regulation_to_contract returns (0, []) for it and
\* raises nothing, so the compliance audit never lists it as a violation
\* and the monitor never lists a contract as affected by it.
C13_NoKeywordsNeverFlagged ==
    /\ \A r \in Range(RecordsOf(regs)) :
           NoKeywords(r) => match_regulation_to_contract(r, current_text) = <<0, <<>>>>
    /\ pc = "audit" =>
           /\ regs.shape # "absent" => raised = None
           /\ \A v \in Range(violations) : ~NoKeywords(v[1])
    /\ pc = "listing" =>
           /\ regs.shape # "absent" => raised = None
           /\ \A e \in Range(impacted) : NoKeywords(e[1]) => e[2] = <<>>

\* C13 witness: a store with a record that has no keywords and a record
\* with a keyword of the texts has been audited and then listed: the second
\* record is a violation and affects the contract of the index, the first
\* does neither.
C13_Witness ==
    /\ pc = "listing"
    /\ raised = None
    /\ \E r \in Range(RecordsOf(regs)) : NoKeywords(r)
    /\ Len(violations) = 1
    /\ ~NoKeywords(violations[1][1])
    /\ violations[1][2] # <<>>
    /\ \E e \in Range(impacted) : NoKeywords(e[1]) /\ e[2] = <<>>
    /\ \E e \in Range(impacted) : e[2] # <<>>

\* C18: every operation that reads the regulation store completes without
\* raising on a flat list of records and on an id-keyed mapping, the
\* mapping Home.ensure_dirs writes included: the compliance audit, the
\* monitor listing and mock_fetch_regulations.
C18_BothShapesAccepted ==
    (pc \in {"audit", "listing", "fetch"} /\ regs.shape \in {"list", "dict"}) =>
        raised = None

\* the same for the audit and the listing alone
AuditAndListingAcceptBoth ==
    (pc \in {"audit", "listing"} /\ regs.shape \in {"list", "dict"}) =>
        raised = None

(***************************************************************************)
(* check_compliance (main.py)                                              *)
(*                                                                         *)
(* clauses is a mapping in insertion order, here the sequence of its       *)
(* entries [name, value].  A value is tagged with its Python type: a       *)
(* string [type |-> "str", s], an integer [type |-> "int", n], a mapping   *)
(* [type |-> "dict", keys, vals], a list [type |-> "list"] or None         *)
(* [type |-> "NoneType"].  The result, a mapping too, is the sequence of   *)
(* its entries <<name, clause_flags>>.                                     *)
(***************************************************************************)

\* the phrases the rules look for

K_PERSONAL_DATA == <<"p", "e", "r", "s", "o", "n", "a", "l", " ", "d", "a", "t", "a">>

K_CONSENT == <<"c", "o", "n", "s", "e", "n", "t">>

K_DATA_RETENTION == <<"d", "a", "t", "a", " ", "r", "e", "t", "e", "n", "t", "i", "o", "n">>

K_DURATION == <<"d", "u", "r", "a", "t", "i", "o", "n">>

K_TRANSFER == <<"t", "r", "a", "n", "s", "f", "e", "r">>

K_OUTSIDE == <<"o", "u", "t", "s", "i", "d", "e">>

K_PROTECTION == <<"p", "r", "o", "t", "e", "c", "t", "i", "o", "n">>

K_TERMINATE == <<"t", "e", "r", "m", "i", "n", "a", "t", "e">>

K_NOTICE == <<"n", "o", "t", "i", "c", "e">>

K_LIABILITY == <<"l", "i", "a", "b", "i", "l", "i", "t", "y">>

K_UNLIMITED == <<"u", "n", "l", "i", "m", "i", "t", "e", "d">>

K_DISPUTE == <<"d", "i", "s", "p", "u", "t", "e">>

K_ARBITRATION == <<"a", "r", "b", "i", "t", "r", "a", "t", "i", "o", "n">>

K_COURT == <<"c", "o", "u", "r", "t">>
StrValue(s) == [type |-> "str", s |-> s]

IntValue(n) == [type |-> "int", n |-> n]

DictValue(keys, vals) == [type |-> "dict", keys |-> keys, vals |-> vals]

DigitChars == <<"0", "1", "2", "3", "4", "5", "6", "7", "8", "9">>

\* str(n) for an integer n >= 0
RECURSIVE IntStr(_)
IntStr(n) == IF n < 10 THEN <<DigitChars[n + 1]>> ELSE IntStr(n \div 10) \o <<DigitChars[(n % 10) + 1]>>

\* repr(v): a string of letters, digits and spaces in single quotes, a
\* mapping as {key: value, ...} with its keys and values as repr gives them
RECURSIVE repr(_)
repr(v) ==
    IF v.type = "str" THEN <<"'">> \o v.s \o <<"'">>
    ELSE IF v.type = "int" THEN IntStr(v.n)
    ELSE IF v.type = "dict"
         THEN <<"{">>
                  \o join(<<",", " ">>,
                          [i \in 1..Len(v.keys) |->
                              <<"'">> \o v.keys[i] \o <<"'">> \o <<":", " ">> \o repr(v.vals[i])])
                  \o <<"}">>
    ELSE IF v.type = "list" THEN <<"[", "]">>
    ELSE <<"N", "o", "n", "e">>

\* str(v)
str(v) == IF v.type = "str" THEN v.s ELSE repr(v)

\* the sub-fields of a mapping, nested mappings flattened to their leaves
RECURSIVE LeafTexts(_)
LeafTexts(v) ==
    IF v.type = "dict"
    THEN join(<<" ">>, [i \in 1..Len(v.vals) |-> LeafTexts(v.vals[i])])
    ELSE str(v)

\* " ".join(str(v) for v in text.values())
JoinValues(v) == join(<<" ">>, [i \in 1..Len(v.vals) |-> str(v.vals[i])])

\* the rules as an if / elif chain: the first that holds only
ClauseFlags_first(text_lower) ==
    IF In(K_PERSONAL_DATA, text_lower) /\ ~In(K_CONSENT, text_lower)
    THEN <<"GDPR: Missing user consent for data processing.">>
    ELSE IF In(K_DATA_RETENTION, text_lower) /\ ~In(K_DURATION, text_lower)
    THEN <<"GDPR: Retention duration not specified.">>
    ELSE IF In(K_TRANSFER, text_lower) /\ In(K_OUTSIDE, text_lower) /\ ~In(K_PROTECTION, text_lower)
    THEN <<"GDPR: Cross-border data transfer missing protection clause.">>
    ELSE IF In(K_TERMINATE, text_lower) /\ ~In(K_NOTICE, text_lower)
    THEN <<"Indian Contract Act: Missing notice period in termination clause.">>
    ELSE IF In(K_LIABILITY, text_lower) /\ In(K_UNLIMITED, text_lower)
    THEN <<"Indian Contract Act: Unlimited liability may be unenforceable.">>
    ELSE IF In(K_DISPUTE, text_lower) /\ ~In(K_ARBITRATION, text_lower) /\ ~In(K_COURT, text_lower)
    THEN <<"Indian Contract Act: Missing dispute resolution mechanism.">>
    ELSE <<>>

\* clause_flags after the six checks
ClauseFlags(text_lower) ==
    (IF In(K_PERSONAL_DATA, text_lower) /\ ~In(K_CONSENT, text_lower)
     THEN <<"GDPR: Missing user consent for data processing.">> ELSE <<>>)
    \o (IF In(K_DATA_RETENTION, text_lower) /\ ~In(K_DURATION, text_lower)
        THEN <<"GDPR: Retention duration not specified.">> ELSE <<>>)
    \o (IF In(K_TRANSFER, text_lower) /\ In(K_OUTSIDE, text_lower) /\ ~In(K_PROTECTION, text_lower)
        THEN <<"GDPR: Cross-border data transfer missing protection clause.">> ELSE <<>>)
    \o (IF In(K_TERMINATE, text_lower) /\ ~In(K_NOTICE, text_lower)
        THEN <<"Indian Contract Act: Missing notice period in termination clause.">> ELSE <<>>)
    \o (IF In(K_LIABILITY, text_lower) /\ In(K_UNLIMITED, text_lower)
        THEN <<"Indian Contract Act: Unlimited liability may be unenforceable.">> ELSE <<>>)
    \o (IF In(K_DISPUTE, text_lower) /\ ~In(K_ARBITRATION, text_lower) /\ ~In(K_COURT, text_lower)
        THEN <<"Indian Contract Act: Missing dispute resolution mechanism.">> ELSE <<>>)

\* every clause recorded, flagged or not
Recorded_always(clause_flags) == TRUE

\* if clause_flags
Recorded(clause_flags) == clause_flags # <<>>

\* the text of a clause value after the isinstance(text, dict) step
AsText(v) == IF v.type = "dict" THEN StrValue(JoinValues(v)) ELSE v

\* the loop over the clauses from the i-th on: the entries put in flags
RECURSIVE ComplianceLoop(_, _)
ComplianceLoop(cls, i) ==
    IF i > Len(cls) THEN <<>>
    ELSE LET t == AsText(cls[i].value)
         IN  IF t.type # "str" THEN ComplianceLoop(cls, i + 1)
             ELSE LET clause_flags == ClauseFlags(lower(t.s))
                  IN  (IF Recorded(clause_flags) THEN << <<cls[i].name, clause_flags>> >> ELSE <<>>)
                          \o ComplianceLoop(cls, i + 1)

check_compliance(cls) == ComplianceLoop(cls, 1)

(***************************************************************************)
(* Compliance check: the clauses of a contract are checked                 *)
(***************************************************************************)

\* the phrases of the rules and a word of no rule
Phrases ==
    { K_PERSONAL_DATA, K_CONSENT, K_DATA_RETENTION, K_DURATION, K_TRANSFER,
      K_OUTSIDE, K_PROTECTION, K_TERMINATE, K_NOTICE, K_LIABILITY,
      K_UNLIMITED, K_DISPUTE, K_ARBITRATION, K_COURT, <<"t", "h", "e">> }

\* most phrases of an assembled clause text
MaxPhrases == 2

\* the texts of at most n phrases, a space between two
RECURSIVE PhraseTexts(_)
PhraseTexts(n) ==
    IF n = 0 THEN {<<>>}
    ELSE LET shorter == PhraseTexts(n - 1)
         IN  shorter \cup Phrases \cup {t \o <<" ">> \o p : t \in shorter \ {<<>>}, p \in Phrases}

\* the two clause texts of the flag examples
MarketingExample == <<"W", "e", " ", "c", "o", "l", "l", "e", "c", "t", " ", "p", "e", "r", "s", "o", "n", "a", "l", " ", "d", "a", "t", "a", " ", "f", "o", "r", " ", "m", "a", "r", "k", "e", "t", "i", "n", "g", " ", "p", "u", "r", "p", "o", "s", "e", "s", ".">>

LiabilityExample == <<"T", "h", "e", " ", "p", "r", "o", "v", "i", "d", "e", "r", "'", "s", " ", "l", "i", "a", "b", "i", "l", "i", "t", "y", " ", "i", "s", " ", "u", "n", "l", "i", "m", "i", "t", "e", "d", " ", "i", "n", " ", "a", "l", "l", " ", "c", "a", "s", "e", "s", ".">>

\* a transfer abroad with its protection, in capitals
TransferProtected == <<"T", "R", "A", "N", "S", "F", "E", "R", " ", "O", "u", "t", "s", "i", "d", "e", " ", "t", "h", "e", " ", "c", "o", "u", "n", "t", "r", "y", " ", "w", "i", "t", "h", " ", "P", "r", "o", "t", "e", "c", "t", "i", "o", "n">>

\* a text every rule flags
AllRulesText == <<"p", "e", "r", "s", "o", "n", "a", "l", " ", "d", "a", "t", "a", " ", "r", "e", "t", "e", "n", "t", "i", "o", "n", ",", " ", "t", "r", "a", "n", "s", "f", "e", "r", " ", "o", "u", "t", "s", "i", "d", "e", ",", " ", "t", "e", "r", "m", "i", "n", "a", "t", "e", ",", " ", "u", "n", "l", "i", "m", "i", "t", "e", "d", " ", "l", "i", "a", "b", "i", "l", "i", "t", "y", ",", " ", "d", "i", "s", "p", "u", "t", "e">>

ClauseTexts ==
    PhraseTexts(MaxPhrases)
        \cup {MarketingExample, LiabilityExample, TransferProtected, AllRulesText}

\* the keys of sub-fields: a phrase of a rule and a letter
SubFieldKeys == <<K_NOTICE, <<"k">>>>

\* the leaves of sub-fields
SubFieldLeaves ==
    {StrValue(K_TERMINATE), StrValue(K_UNLIMITED), StrValue(<<"L", "i", "a", "b", "i", "l", "i", "t", "y">>), IntValue(30)}

\* deepest nesting of a clause given as a mapping
MaxDepth == 2

\* the mappings of one or two sub-fields nested at most d deep
RECURSIVE SubFields(_)
SubFields(d) ==
    IF d = 0 THEN {}
    ELSE LET inner == SubFieldLeaves \cup SubFields(d - 1)
         IN  {DictValue(<<SubFieldKeys[k]>>, <<v>>) : k \in 1..Len(SubFieldKeys), v \in inner}
                 \cup {DictValue(SubFieldKeys, <<v, w>>) : v \in SubFieldLeaves, w \in inner}

\* values that are neither a string nor a mapping
OtherValues == {[type |-> "list"], [type |-> "NoneType"], IntValue(30)}

ClauseNames == <<"Termination Clause", "Liability Clause", "Governing Law">>

\* most clauses of a contract
MaxClauses == 2

\* the values of the clauses of a contract with several clauses
FewValues ==
    { StrValue(K_TERMINATE), StrValue(K_NOTICE), StrValue(LiabilityExample),
      DictValue(<<K_NOTICE>>, <<StrValue(K_TERMINATE)>>),
      DictValue(<<<<"k">>>>, <<DictValue(<<K_NOTICE>>, <<StrValue(K_TERMINATE)>>)>>),
      [type |-> "list"] }

\* the contracts of exactly n clauses with values of vals
RECURSIVE ClauseMaps(_, _)
ClauseMaps(n, vals) ==
    IF n = 0 THEN {<<>>}
    ELSE {Append(m, [name |-> ClauseNames[n], value |-> v]) : m \in ClauseMaps(n - 1, vals), v \in vals}

ClauseInputs ==
    ClauseMaps(1, {StrValue(t) : t \in ClauseTexts} \cup SubFields(MaxDepth) \cup OtherValues)
        \cup UNION {ClauseMaps(n, FewValues) : n \in 0..MaxClauses}

InitCompliance ==
    /\ clauses \in ClauseInputs
    /\ flags = <<>>
    /\ TextIdle /\ MatcherIdle /\ RiskIdle /\ StoreIdle
    /\ pc = "start"

CheckCompliance ==
    /\ pc = "start"
    /\ flags' = check_compliance(clauses)
    /\ pc' = "checked"
    /\ UNCHANGED clauses
    /\ UNCHANGED <<text_vars, matcher_vars, risk, store_vars>>

NextCompliance == CheckCompliance

SpecCompliance == InitCompliance /\ [][NextCompliance]_vars

(***************************************************************************)
(* Claims about check_compliance (SpecCompliance)                          *)
(***************************************************************************)

Checked == pc = "checked"

\* the rule table: a rule holds of a text that has every phrase of has and
\* none of lacks
RuleTable ==
    << [has |-> {K_PERSONAL_DATA}, lacks |-> {K_CONSENT},
        message |-> "GDPR: Missing user consent for data processing."],
       [has |-> {K_DATA_RETENTION}, lacks |-> {K_DURATION},
        message |-> "GDPR: Retention duration not specified."],
       [has |-> {K_TRANSFER, K_OUTSIDE}, lacks |-> {K_PROTECTION},
        message |-> "GDPR: Cross-border data transfer missing protection clause."],
       [has |-> {K_TERMINATE}, lacks |-> {K_NOTICE},
        message |-> "Indian Contract Act: Missing notice period in termination clause."],
       [has |-> {K_LIABILITY, K_UNLIMITED}, lacks |-> {},
        message |-> "Indian Contract Act: Unlimited liability may be unenforceable."],
       [has |-> {K_DISPUTE}, lacks |-> {K_ARBITRATION, K_COURT},
        message |-> "Indian Contract Act: Missing dispute resolution mechanism."] >>

RuleHolds(rule, t) ==
    /\ \A phrase \in rule.has : Occurrences(phrase, t) # {}
    /\ \A phrase \in rule.lacks : Occurrences(phrase, t) = {}

\* the messages of the rules that hold of t, in table order
Violations(t) ==
    LET holding == {k \in 1..Len(RuleTable) : RuleHolds(RuleTable[k], t)}
    IN  [n \in 1..Cardinality(holding) |-> RuleTable[Nth(holding, n)].message]

\* the violation list flags has for a clause, empty when it has none
FlagsOf(name) ==
    IF \E i \in 1..Len(flags) : flags[i][1] = name
    THEN flags[CHOOSE i \in 1..Len(flags) : flags[i][1] = name][2]
    ELSE <<>>

\* C14: for every clause given as a text, all six rules are evaluated on
\* the text, letter case aside, and the clause's violation list is exactly
\* the messages of the rules that hold, in table order; the text of the
\* liability example yields exactly the unlimited-liability message.
C14_RulesIndependent ==
    Checked =>
        \A i \in 1..Len(clauses) :
            clauses[i].value.type = "str" =>
                /\ FlagsOf(clauses[i].name) = Violations(clauses[i].value.s)
                /\ clauses[i].value.s = LiabilityExample =>
                       FlagsOf(clauses[i].name) = <<RuleTable[5].message>>

\* C14 witness: a checked contract whose one clause is a text that every
\* rule flags at once: its violation list has the six messages.
C14_Witness ==
    /\ Checked
    /\ Len(clauses) = 1
    /\ clauses[1].value.type = "str"
    /\ clauses[1].value.s = AllRulesText
    /\ Len(FlagsOf(clauses[1].name)) = 6

\* the text the flagger forms of a clause value
FlaggerText(v) == IF v.type = "dict" THEN JoinValues(v) ELSE v.s

\* the names of the clauses from the i-th on that are a string or a mapping
\* and trigger a rule
RECURSIVE FlaggedNames(_, _)
FlaggedNames(cls, i) ==
    IF i > Len(cls) THEN <<>>
    ELSE (IF /\ cls[i].value.type \in {"str", "dict"}
             /\ Violations(FlaggerText(cls[i].value)) # <<>>
          THEN <<cls[i].name>> ELSE <<>>)
             \o FlaggedNames(cls, i + 1)

\* C15: the keys of the output are exactly the clauses that are a string or
\* a mapping and trigger at least one rule: a clause without violations is
\* absent, and a clause that is neither is skipped without an error and
\* without effect on the other clauses.
C15_OutputKeys ==
    Checked =>
        /\ [i \in 1..Len(flags) |-> flags[i][1]] = FlaggedNames(clauses, 1)
        /\ \A i \in 1..Len(flags) : flags[i][2] # <<>>
        /\ \A i \in 1..Len(clauses) :
               clauses[i].value.type \notin {"str", "dict"} => FlagsOf(clauses[i].name) = <<>>

\* C15 witness: a contract with a clause that is flagged after a clause that
\* is neither a string nor a mapping: the output has the second clause only.
C15_Witness ==
    /\ Checked
    /\ Len(clauses) = 2
    /\ clauses[1].value.type = "list"
    /\ clauses[2].value.type = "str"
    /\ Len(flags) = 1
    /\ flags[1][1] = clauses[2].name

\* C16: a clause given as a mapping of sub-fields, nested to any depth, is
\* checked on the text formed by joining all its leaf values with spaces;
\* the keys of the mapping are no part of that text.
C16_LeafValuesJoined ==
    Checked =>
        \A i \in 1..Len(clauses) :
            clauses[i].value.type = "dict" =>
                FlagsOf(clauses[i].name) = Violations(LeafTexts(clauses[i].value))

\* the same of the mappings whose sub-fields are all leaves
OneLevelJoined ==
    Checked =>
        \A i \in 1..Len(clauses) :
            (/\ clauses[i].value.type = "dict"
             /\ \A k \in 1..Len(clauses[i].value.vals) : clauses[i].value.vals[k].type # "dict") =>
                FlagsOf(clauses[i].name) = Violations(LeafTexts(clauses[i].value))

(***************************************************************************)
(* analyze_single_contract (pages/Risk_Assessment.py)                      *)
(***************************************************************************)

K_INDEMNIF == <<"i", "n", "d", "e", "m", "n", "i", "f">>

K_PERPETUAL == <<"p", "e", "r", "p", "e", "t", "u", "a", "l">>

K_INDEFINITE == <<"i", "n", "d", "e", "f", "i", "n", "i", "t", "e">>

K_FORCE_MAJEURE == <<"f", "o", "r", "c", "e", " ", "m", "a", "j", "e", "u", "r", "e">>

\* the rules dictionary of a lower-cased text, in its order: the issue, whether
\* it is present, its penalty
rules(t) ==
    << <<"Unlimited Liability", In(K_LIABILITY, t) /\ In(K_UNLIMITED, t), 30>>,
       <<"Missing Termination Notice", In(K_TERMINATE, t) /\ ~In(K_NOTICE, t), 20>>,
       <<"Mandatory Arbitration", In(K_ARBITRATION, t), 15>>,
       <<"Indemnification", In(K_INDEMNIF, t), 15>>,
       <<"Long-Term / Perpetual", In(K_PERPETUAL, t) \/ In(K_INDEFINITE, t), 10>>,
       <<"Force Majeure Missing", ~In(K_FORCE_MAJEURE, t), 10>> >>

\* the loop over the rules from the i-th on: <<issues, score_penalty>>
RECURSIVE RulesLoop(_, _)
RulesLoop(rs, i) ==
    IF i > Len(rs) THEN <<<<>>, 0>>
    ELSE LET rest == RulesLoop(rs, i + 1)
         IN  IF rs[i][2] THEN <<<<rs[i][1]>> \o rest[1], rs[i][3] + rest[2]>>
             ELSE rest

max(a, b) == IF a >= b THEN a ELSE b

\* the level with the thresholds taken inclusively
risk_level_inclusive(final_score) ==
    IF final_score <= 60 THEN "High"
    ELSE IF final_score <= 85 THEN "Medium"
    ELSE "Low"

risk_level(final_score) ==
    IF final_score < 60 THEN "High"
    ELSE IF final_score < 85 THEN "Medium"
    ELSE "Low"

\* returns <<final_score, risk_level, issues>>
analyze_single_contract(t) ==
    LET found == RulesLoop(rules(lower(t)), 1)
        final_score == max(0, 100 - found[2])
    IN  <<final_score, risk_level(final_score), found[1]>>

(***************************************************************************)
(* Risk assessment: a contract text is scored                              *)
(***************************************************************************)

\* the phrases of the risk rules, two words with the stem of
\* indemnification, and a word of no rule
RiskPhrases ==
    { K_LIABILITY, K_UNLIMITED, K_TERMINATE, K_NOTICE, K_ARBITRATION,
      K_INDEMNIF \o <<"y">>, K_INDEMNIF \o <<"i", "c", "a", "t", "i", "o", "n">>,
      K_PERPETUAL, K_INDEFINITE, K_FORCE_MAJEURE, <<"t", "h", "e">> }

\* most phrases of an assembled contract text
MaxRiskPhrases == 2

\* the texts of at most n risk phrases, a space between two
RECURSIVE RiskPhraseTexts(_)
RiskPhraseTexts(n) ==
    IF n = 0 THEN {<<>>}
    ELSE LET shorter == RiskPhraseTexts(n - 1)
         IN  shorter \cup RiskPhrases
                 \cup {t \o <<" ">> \o p : t \in shorter \ {<<>>}, p \in RiskPhrases}

\* a text with every risk pattern
AllRisksText == <<"U", "n", "l", "i", "m", "i", "t", "e", "d", " ", "L", "I", "A", "B", "I", "L", "I", "T", "Y", ";", " ", "e", "i", "t", "h", "e", "r", " ", "p", "a", "r", "t", "y", " ", "m", "a", "y", " ", "t", "e", "r", "m", "i", "n", "a", "t", "e", ";", " ", "a", "r", "b", "i", "t", "r", "a", "t", "i", "o", "n", ";", " ", "i", "n", "d", "e", "m", "n", "i", "f", "y", ";", " ", "p", "e", "r", "p", "e", "t", "u", "a", "l">>

\* a text with a force majeure clause and nothing else, in capitals
ForceMajeureOnly == <<"F", "O", "R", "C", "E", " ", "M", "A", "J", "E", "U", "R", "E">>

RiskTexts == RiskPhraseTexts(MaxRiskPhrases) \cup {AllRisksText, ForceMajeureOnly}

InitRisk ==
    /\ current_text \in RiskTexts
    /\ risk = None
    /\ reg = None /\ score = 0 /\ matches = <<>>
    /\ TextIdle /\ FlaggerIdle /\ StoreIdle
    /\ pc = "start"

AnalyzeSingleContract ==
    /\ pc = "start"
    /\ risk' = analyze_single_contract(current_text)
    /\ pc' = "analyzed"
    /\ UNCHANGED <<reg, current_text, score, matches>>
    /\ UNCHANGED <<text_vars, flagger_vars, store_vars>>

NextRisk == AnalyzeSingleContract

SpecRisk == InitRisk /\ [][NextRisk]_vars

(***************************************************************************)
(* Claims about analyze_single_contract (SpecRisk)                         *)
(***************************************************************************)

Analyzed == pc = "analyzed"

Has(phrase, t) == \E i \in 0..Len(t) : OccursAt(phrase, t, i)

\* the patterns: the name of the issue and its penalty
Patterns ==
    << [issue |-> "Unlimited Liability", penalty |-> 30],
       [issue |-> "Missing Termination Notice", penalty |-> 20],
       [issue |-> "Mandatory Arbitration", penalty |-> 15],
       [issue |-> "Indemnification", penalty |-> 15],
       [issue |-> "Long-Term / Perpetual", penalty |-> 10],
       [issue |-> "Force Majeure Missing", penalty |-> 10] >>

\* the patterns t shows: unlimited liability, termination without notice,
\* arbitration, indemnification (any word of that stem), a perpetual or
\* indefinite term, no force majeure clause
Detected(t) ==
    (IF Has(K_LIABILITY, t) /\ Has(K_UNLIMITED, t) THEN {1} ELSE {})
        \cup (IF Has(K_TERMINATE, t) /\ ~Has(K_NOTICE, t) THEN {2} ELSE {})
        \cup (IF Has(K_ARBITRATION, t) THEN {3} ELSE {})
        \cup (IF Has(K_INDEMNIF, t) THEN {4} ELSE {})
        \cup (IF Has(K_PERPETUAL, t) \/ Has(K_INDEFINITE, t) THEN {5} ELSE {})
        \cup (IF ~Has(K_FORCE_MAJEURE, t) THEN {6} ELSE {})

\* the sum of the penalties of the patterns of S
RECURSIVE PenaltySum(_)
PenaltySum(S) ==
    IF S = {} THEN 0
    ELSE LET k == CHOOSE x \in S : TRUE
         IN  Patterns[k].penalty + PenaltySum(S \ {k})

\* C17: analyze_single_contract returns score = max(0, 100 - the sum of the
\* penalties of the detected patterns), with penalties 30 (unlimited
\* liability), 20 (terminate without notice), 15 (arbitration), 15
\* (indemnification), 10 (perpetual or indefinite) and 10 (no force
\* majeure); the level is High iff score < 60, Medium iff 60 <= score < 85,
\* Low iff score >= 85; the score is within 0..100 and the issue list names
\* exactly the detected patterns.
C17_RiskScore ==
    Analyzed =>
        \A found \in {Detected(current_text)} :
            LET total == PenaltySum(found)
            IN  /\ risk[1] = (IF 100 - total > 0 THEN 100 - total ELSE 0)
                /\ risk[1] \in 0..100
                /\ risk[2] = "High" <=> risk[1] < 60
                /\ risk[2] = "Medium" <=> (60 <= risk[1] /\ risk[1] < 85)
                /\ risk[2] = "Low" <=> risk[1] >= 85
                /\ risk[3] = [n \in 1..Cardinality(found) |-> Patterns[Nth(found, n)].issue]

\* C17 witness: a text with unlimited liability and no force majeure clause
\* scores 60, the lowest Medium score.
C17_Witness ==
    /\ Analyzed
    /\ risk = <<60, "Medium", <<"Unlimited Liability", "Force Majeure Missing">>>>

(***************************************************************************)
(* Repeated injection: clause after clause is injected into a contract,    *)
(* each into the text the last injection returned                          *)
(***************************************************************************)

\* what stands above the anchor line
RepeatPrefixes ==
    { <<>>, <<"A", "\n">>, <<"A", "\n", "\n">>, <<"A", " ", "\n", " ">>, <<"1", ".", " ">> }

\* what stands below it
RepeatSuffixes == { <<>>, <<"\n", "B">>, NL \o AnchorLines[2] \o <<"\n", "B">> }

\* contracts with a line of an anchor
RepeatDocs ==
    {prefix \o AnchorLines[k] \o suffix :
        prefix \in RepeatPrefixes, k \in 1..Len(AnchorLines), suffix \in RepeatSuffixes}

\* clauses without a word of an anchor: a line of text, two lines, and a
\* bare section number
RepeatClauses == { <<"c">>, <<"d", "\n", "e">>, <<"5", ".">> }

\* most injections into one contract
MaxInjections == 2

InitRepeat ==
    /\ original_text \in RepeatDocs
    /\ new_clause_text = <<>>
    /\ sections = <<>>
    /\ result_text = original_text
    /\ history = <<>>
    /\ MatcherIdle /\ FlaggerIdle /\ RiskIdle /\ StoreIdle
    /\ pc = "start"

\* the Fix & Email Update button: the clause goes into the current text of
\* the contract, which becomes its next version
FixAndEmailUpdate ==
    /\ Len(history) < MaxInjections
    /\ \E clause \in RepeatClauses :
           /\ new_clause_text' = clause
           /\ result_text' = inject_clause_smartly(result_text, clause)
           /\ history' = Append(history, clause)
    /\ pc' = "injected"
    /\ UNCHANGED <<original_text, sections>>
    /\ UNCHANGED <<matcher_vars, flagger_vars, risk, store_vars>>

NextRepeat == FixAndEmailUpdate

SpecRepeat == InitRepeat /\ [][NextRepeat]_vars

(***************************************************************************)
(* Claims about repeated injection (SpecRepeat)                            *)
(***************************************************************************)

\* the offset at which the words of anchor k start when the anchor stands
\* at the line start i
WordsStart(k, t, i) ==
    LET a == RunEnd(t, i, Whitespace)
        d == RunEnd(t, a, Digits)
        e == IF d < Len(t) /\ t[d + 1] = "." THEN d + 1 ELSE d
    IN  IF k \in NumberedAnchors /\ PhraseAt(AnchorWords[k], t, RunEnd(t, e, Whitespace))
        THEN RunEnd(t, e, Whitespace)
        ELSE a

\* the offset at which the anchor line starts: the line with the first word
\* of the anchor the Anchor Locator finds
AnchorLineStart(t) ==
    LET k == Min(MatchingAnchors(t))
        w == WordsStart(k, t, AnchorLocator(t))
    IN  CHOOSE i \in LineStarts(t) : i <= w /\ \A j \in LineStarts(t) : j <= w => j <= i

\* the texts of cs occur in s from offset from on, one after the other
RECURSIVE InOrder(_, _, _)
InOrder(cs, s, from) ==
    \/ cs = <<>>
    \/ \E p \in from..(Len(s) - Len(cs[1])) :
           /\ Slice(s, p, p + Len(cs[1])) = cs[1]
           /\ InOrder(Tail(cs), s, p + Len(cs[1]))

\* C20: repeated injection ordering: after the clauses of a sequence without
\* anchor words have been injected one after another into a contract with
\* an anchor, each into the previous output, the clauses stand in injection
\* order, all above the anchor line, and the text from the anchor line to
\* the end is the original's, character for character.
C20_RepeatedInjectionOrder ==
    (history # <<>> /\ AnchorLocator(original_text) # -1) =>
        LET tail == Slice(original_text, AnchorLineStart(original_text), Len(original_text))
        IN  /\ EndsWith(result_text, tail)
            /\ InOrder(history, SubSeq(result_text, 1, Len(result_text) - Len(tail)), 0)

\* the same of the clauses that begin with a letter
LetterClausesInOrder ==
    (/\ history # <<>>
     /\ AnchorLocator(original_text) # -1
     /\ \A n \in 1..Len(history) : history[n][1] \notin Digits) =>
        LET tail == Slice(original_text, AnchorLineStart(original_text), Len(original_text))
        IN  /\ EndsWith(result_text, tail)
            /\ InOrder(history, SubSeq(result_text, 1, Len(result_text) - Len(tail)), 0)

(***************************************************************************)
(* Normalisation: a document is split and joined, and the text obtained    *)
(* is taken as the document again                                          *)
(***************************************************************************)

\* a short heading
Abc == <<"A", "B", "C">>

\* the pieces the documents to normalise are assembled from
NormPieces == { Abc, <<"A">>, <<"b">>, <<" ">>, <<"\n">>, <<"\r">> }

\* longest document to normalise, in pieces
MaxNormPieces == 5

\* how many times a document is normalised
MaxPasses == 2

NormDocs == Concats(NormPieces, MaxNormPieces)

InitNormalise ==
    /\ original_text \in NormDocs
    /\ new_clause_text = <<>>
    /\ sections = <<>>
    /\ result_text = <<>>
    /\ history = <<>>
    /\ MatcherIdle /\ FlaggerIdle /\ RiskIdle /\ StoreIdle
    /\ pc = "start"

\* the text sections_to_text returned is the document of the next pass;
\* history keeps the texts returned so far
SplitAgain ==
    /\ pc = "joined"
    /\ Len(history) + 1 < MaxPasses
    /\ history' = Append(history, result_text)
    /\ original_text' = result_text
    /\ pc' = "start"
    /\ UNCHANGED <<new_clause_text, sections, result_text>>
    /\ UNCHANGED <<matcher_vars, flagger_vars, risk, store_vars>>

NextNormalise == SplitIntoSections \/ SectionsToText \/ SplitAgain

SpecNormalise == InitNormalise /\ [][NextNormalise]_vars

\* C25: normalisation is a fixpoint, N(N(d)) = N(d) with
\* N(d) = sections_to_text(split_into_sections(d)): the text of every
\* further pass equals the text of the pass before it, and no normalised
\* text begins or ends with whitespace.
C25_NormalisationFixpoint ==
    pc = "joined" =>
        /\ history # <<>> => result_text = history[Len(history)]
        /\ result_text # <<>> =>
               /\ result_text[1] \notin Whitespace
               /\ result_text[Len(result_text)] \notin Whitespace

\* C25 witness: the second pass of a document whose first pass changed it
\* and left a heading and a body.
C25_Witness ==
    /\ pc = "joined"
    /\ Len(history) = 1
    /\ Len(sections) > 1
    /\ \E i \in 1..Len(sections) : sections[i][2] # <<>>
    /\ \E d \in NormDocs :
           /\ d # history[1]
           /\ sections_to_text(split_into_sections(d)) = history[1]

\* the headings of the sections but the "Preamble" placeholder of the first
RECURSIVE DetectedHeadings(_, _)
DetectedHeadings(secs, i) ==
    IF i > Len(secs) THEN <<>>
    ELSE (IF i = 1 /\ secs[i][1] = Preamble THEN <<>> ELSE <<secs[i][1]>>)
             \o DetectedHeadings(secs, i + 1)

\* the lines of a text that satisfy the rule of the Heading Classifier
RECURSIVE HeadingLines(_)
HeadingLines(lines) ==
    IF lines = <<>> THEN <<>>
    ELSE (IF HeadingRule(lines[1]) THEN <<lines[1]>> ELSE <<>>)
             \o HeadingLines(Tail(lines))

\* C26: in the output of split_into_sections only the first section can
\* have the heading "Preamble"; the other headings are lines of the
\* document that satisfy the Heading Classifier, in document order; no
\* non-blank line of a body satisfies the Heading Classifier; no body
\* begins or ends with whitespace.
C26_SectionStructure ==
    pc = "split" =>
        /\ \A i \in 2..Len(sections) : sections[i][1] # Preamble
        /\ IsSubsequence(DetectedHeadings(sections, 1),
                         HeadingLines(TrimmedLines(original_text)))
        /\ \A i \in 1..Len(sections) :
               /\ \A ln \in Range(TrimmedLines(sections[i][2])) : ~HeadingRule(ln)
               /\ sections[i][2] = strip(sections[i][2])

\* C26 witness: a split document with a Preamble section that has a body,
\* then a detected heading with a body.
C26_Witness ==
    /\ pc = "split"
    /\ Len(sections) = 2
    /\ sections[1][1] = Preamble
    /\ sections[1][2] # <<>>
    /\ HeadingRule(sections[2][1])
    /\ sections[2][2] # <<>>

(***************************************************************************)
(* The contract index (data/contracts_index.json): uploads and fixes       *)
(*                                                                         *)
(* The index is a JSON object; it is modelled by its entries in file       *)
(* order, each with its key (id) and the fields file and version.  The     *)
(* fields original_file, original_name, uploaded_at and last_updated,      *)
(* which no operation here reads, are left out.                            *)
(***************************************************************************)

\* f"{n:03d}" as a bug would have it: the number without padding
Format03d_unpadded(n) == IntStr(n)

\* f"{n:03d}": the decimal digits of n, padded with zeros to three
Format03d(n) ==
    LET digits == IntStr(n)
    IN  [i \in 1..(IF Len(digits) < 3 THEN 3 - Len(digits) ELSE 0) |-> "0"] \o digits

\* utils.next_contract_id, of the index read
next_contract_id(idx) ==
    LET existing == Len(idx)
    IN  <<"c", "o", "n", "t", "r", "a", "c", "t", "_">> \o Format03d(existing + 1)

\* f"{cid}-v{version}.pdf"
VersionedFile(cid, version) ==
    cid \o <<"-", "v">> \o IntStr(version) \o <<".", "p", "d", "f">>

\* cid in index
HasKey(index, cid) == \E i \in 1..Len(index) : index[i].id = cid

\* index[cid] = entry: the value of an existing key is replaced in place, a
\* new key goes to the end
SetEntry(index, cid, entry) ==
    IF HasKey(index, cid)
    THEN [i \in 1..Len(index) |-> IF index[i].id = cid THEN entry ELSE index[i]]
    ELSE Append(index, entry)

\* the update of the index in save_uploaded_contract
IndexAfterUpload(index, cid) ==
    SetEntry(index, cid, [id |-> cid, file |-> VersionedFile(cid, 1), version |-> 1])

\* the update of the index in the Fix Issues Locally handler; the index is
\* left alone when it has no entry for cid
IndexAfterLocalFix(index, cid, current_meta) ==
    LET new_ver == current_meta.version + 1
        new_file == VersionedFile(cid, new_ver)
    IN  IF HasKey(index, cid)
        THEN SetEntry(index, cid, [id |-> cid, file |-> new_file, version |-> new_ver])
        ELSE index

\* the update of the index in the Fix & Email Update handler
IndexAfterMonitorFix(index, item) ==
    LET new_ver == item.version + 1
        new_filename == VersionedFile(item.id, new_ver)
    IN  IF HasKey(index, item.id)
        THEN SetEntry(index, item.id, [id |-> item.id, file |-> new_filename, version |-> new_ver])
        ELSE index

\* most uploads
MaxUploads == 3

\* highest version a fix is applied to
MaxFixes == 2

\* what a session holds after an operation: the operation, the contract and
\* version it worked on, and the index as it was before
Held(op, cid, version, before) ==
    [op |-> op, cid |-> cid, version |-> version, before |-> before]

\* after utils.ensure_dirs: the index is the empty object
InitIndex ==
    /\ contract_index = <<>>
    /\ session = Held("none", <<>>, 0, <<>>)
    /\ regs = None /\ violations = <<>> /\ impacted = <<>> /\ raised = None
    /\ TextIdle /\ MatcherIdle /\ FlaggerIdle /\ RiskIdle
    /\ pc = "idle"

\* an upload on the Contract Analysis or Risk Assessment page
SaveUploadedContract ==
    /\ Len(contract_index) < MaxUploads
    /\ \E cid \in {next_contract_id(contract_index)} :
           /\ contract_index' = IndexAfterUpload(contract_index, cid)
           /\ session' = Held("upload", cid, 1, contract_index)
    /\ pc' = "uploaded"
    /\ UNCHANGED <<regs, violations, impacted, raised>>
    /\ UNCHANGED <<text_vars, matcher_vars, flagger_vars, risk>>

\* Fix Issues Locally in the run of the page that made the upload (mode
\* Analyze New): cid is the contract just saved, current_meta its version 1
FixUploadedLocally ==
    /\ pc = "uploaded"
    /\ contract_index' = IndexAfterLocalFix(contract_index, session.cid, [version |-> 1])
    /\ session' = Held("fix", session.cid, 1, contract_index)
    /\ pc' = "fixed"
    /\ UNCHANGED <<regs, violations, impacted, raised>>
    /\ UNCHANGED <<text_vars, matcher_vars, flagger_vars, risk>>

\* Fix Issues Locally on a contract selected from the index (mode Audit
\* Existing): the run of the page reads the index, then the handler does
FixIssuesLocally ==
    /\ \E i \in 1..Len(contract_index) :
           LET cid == contract_index[i].id
               current_meta == contract_index[i]
           IN  /\ current_meta.version <= MaxFixes
               /\ contract_index' = IndexAfterLocalFix(contract_index, cid, current_meta)
               /\ session' = Held("fix", cid, current_meta.version, contract_index)
    /\ pc' = "fixed"
    /\ UNCHANGED <<regs, violations, impacted, raised>>
    /\ UNCHANGED <<text_vars, matcher_vars, flagger_vars, risk>>

\* Fix & Email Update of the Regulation Monitor on a contract its scan
\* listed: the run of the page scans the index, then the handler reads it
FixAndEmail ==
    /\ \E i \in 1..Len(contract_index) :
           LET item == [id |-> contract_index[i].id, version |-> contract_index[i].version]
           IN  /\ item.version <= MaxFixes
               /\ contract_index' = IndexAfterMonitorFix(contract_index, item)
               /\ session' = Held("fix", item.id, item.version, contract_index)
    /\ pc' = "emailed"
    /\ UNCHANGED <<regs, violations, impacted, raised>>
    /\ UNCHANGED <<text_vars, matcher_vars, flagger_vars, risk>>

NextIndex ==
    \/ SaveUploadedContract
    \/ FixUploadedLocally
    \/ FixIssuesLocally
    \/ FixAndEmail

SpecIndex == InitIndex /\ [][NextIndex]_vars

(***************************************************************************)
(* Claims about the contract index                                         *)
(***************************************************************************)

\* contract_001, contract_002, ...: the n-th id, n < 1000
Numbered(n) ==
    <<"c", "o", "n", "t", "r", "a", "c", "t", "_",
      DigitChars[(n \div 100) + 1], DigitChars[((n \div 10) % 10) + 1], DigitChars[(n % 10) + 1]>>

\* "<id>-v<version>.pdf"
FileNameOf(entry) ==
    entry.id \o <<"-", "v">> \o IntStr(entry.version) \o <<".", "p", "d", "f">>

\* C21: under any sequence of uploads and fixes the ids of the index are
\* pairwise distinct and numbered contract_001, contract_002, ... in upload
\* order; every entry has a version >= 1 and the file name
\* "<id>-v<version>.pdf"; an upload adds one entry of version 1 and leaves
\* the others alone; a fix raises the version of exactly one contract by
\* exactly 1 and leaves the others alone.
C21_IndexInvariant ==
    pc \in {"idle", "uploaded", "fixed", "emailed"} =>
      LET index == contract_index
          before == session.before
      IN  /\ \A i, j \in 1..Len(index) : index[i].id = index[j].id => i = j
          /\ \A i \in 1..Len(index) :
                 /\ index[i].id = Numbered(i)
                 /\ index[i].version >= 1
                 /\ index[i].file = FileNameOf(index[i])
          /\ session.op = "upload" =>
                 /\ Len(index) = Len(before) + 1
                 /\ SubSeq(index, 1, Len(before)) = before
                 /\ index[Len(index)].version = 1
          /\ session.op = "fix" =>
                 /\ Len(index) = Len(before)
                 /\ \E i \in 1..Len(index) :
                        /\ index[i].id = session.cid
                        /\ index[i].version = before[i].version + 1
                        /\ \A j \in 1..Len(index) : j # i => index[j] = before[j]

\* C21 witness: three contracts were uploaded and the second has been
\* fixed twice, the last time by the Regulation Monitor.
C21_Witness ==
    /\ pc = "emailed"
    /\ Len(contract_index) = 3
    /\ contract_index[2].version = 3
    /\ contract_index[1].version = 1
    /\ session.cid = Numbered(2)

(***************************************************************************)
(* Two uploads at a time: save_uploaded_contract in two sessions, each     *)
(* read and each write of the index file a step of its own                 *)
(***************************************************************************)

Sessions == {1, 2}

\* most contracts in the index when the two uploads begin
MaxIndexed == 2

\* the indexes uploads and fixes leave, of up to n contracts: each contract
\* uploaded, and then fixed or not up to the version after MaxFixes
RECURSIVE IndexesOf(_)
IndexesOf(n) ==
    IF n = 0 THEN {<<>>}
    ELSE LET fewer == IndexesOf(n - 1)
         IN  fewer \cup
             {IndexAfterLocalFix(IndexAfterUpload(index, next_contract_id(index)),
                                 next_contract_id(index), [version |-> v]) :
                 index \in {x \in fewer : Len(x) = n - 1}, v \in 1..MaxFixes}
             \cup
             {IndexAfterUpload(index, next_contract_id(index)) :
                 index \in {x \in fewer : Len(x) = n - 1}}

\* the locals of save_uploaded_contract in a session
Uploading(at, cid, index) == [at |-> at, cid |-> cid, index |-> index]

InitUpload ==
    /\ contract_index \in IndexesOf(MaxIndexed)
    /\ session = [s \in Sessions |-> Uploading("called", <<>>, <<>>)]
    /\ regs = None /\ violations = <<>> /\ impacted = <<>> /\ raised = None
    /\ TextIdle /\ MatcherIdle /\ FlaggerIdle /\ RiskIdle
    /\ pc = "uploading"

\* cid = next_contract_id(): the index file is read and counted
NextContractId(s) ==
    /\ session[s].at = "called"
    /\ session' = [session EXCEPT ![s] = Uploading("named", next_contract_id(contract_index), <<>>)]
    /\ UNCHANGED <<regs, contract_index, violations, impacted, raised>>
    /\ UNCHANGED <<text_vars, matcher_vars, flagger_vars, risk, pc>>

\* index = read_json(CONTRACT_INDEX), after the files were written
ReadIndex(s) ==
    /\ session[s].at = "named"
    /\ session' = [session EXCEPT ![s] = Uploading("read", session[s].cid, contract_index)]
    /\ UNCHANGED <<regs, contract_index, violations, impacted, raised>>
    /\ UNCHANGED <<text_vars, matcher_vars, flagger_vars, risk, pc>>

\* index[cid] = {...}; write_json(CONTRACT_INDEX, index); return
WriteIndex(s) ==
    /\ session[s].at = "read"
    /\ contract_index' = IndexAfterUpload(session[s].index, session[s].cid)
    /\ session' = [session EXCEPT ![s] = Uploading("returned", session[s].cid, contract_index')]
    /\ UNCHANGED <<regs, violations, impacted, raised>>
    /\ UNCHANGED <<text_vars, matcher_vars, flagger_vars, risk, pc>>

NextUpload ==
    \E s \in Sessions : NextContractId(s) \/ ReadIndex(s) \/ WriteIndex(s)

SpecUpload == InitUpload /\ [][NextUpload]_vars

\* both uploads have returned
BothReturned == pc = "uploading" /\ \A s \in Sessions : session[s].at = "returned"

\* C22: two uploads processed at a time, their reads and writes of the
\* index interleaved in any order, get different contract ids, and the
\* index has an entry for each afterwards.
C22_ConcurrentUploadsDistinct ==
    BothReturned =>
        /\ session[1].cid # session[2].cid
        /\ \A s \in Sessions : HasKey(contract_index, session[s].cid)

(***************************************************************************)
(* Fetch New Rules, one call after the other                               *)
(***************************************************************************)

\* the records a store may hold when the fetches begin
StoredRecords == {PrivacyRule, AiAct, LiabilityStandard, NoKeywordsRule}

\* most records of the store when the fetches begin
MaxStored == 3

\* most calls of mock_fetch_regulations
MaxFetches == 4

\* the lists of up to n of the records, no title twice
RECURSIVE RecordLists(_)
RecordLists(n) ==
    IF n = 0 THEN {<<>>}
    ELSE LET shorter == RecordLists(n - 1)
         IN  shorter \cup
             {Append(l, r) : l \in {x \in shorter : Len(x) = n - 1},
                             r \in StoredRecords}

\* no title twice
DistinctTitles(l) == \A i, j \in 1..Len(l) : l[i].title = l[j].title => i = j

InitFetch ==
    /\ regs \in {List(l) : l \in {x \in RecordLists(MaxStored) : DistinctTitles(x)}}
    /\ session = [initial |-> regs, before |-> regs, fetched |-> <<>>]
    /\ contract_index = <<>> /\ violations = <<>> /\ impacted = <<>> /\ raised = None
    /\ TextIdle /\ MatcherIdle /\ FlaggerIdle /\ RiskIdle
    /\ pc = "monitor"

\* the Fetch New Rules button: one call of mock_fetch_regulations;
\* session.fetched lists what the calls returned, by place in options
FetchNewRules ==
    /\ Len(session.fetched) < MaxFetches
    /\ \E result \in {mock_fetch_regulations(regs)} :
           /\ raised' = result.call.exc
           /\ regs' = result.file
           /\ session' = [initial |-> session.initial, before |-> regs,
                          fetched |-> Append(session.fetched, result.new_reg)]
    /\ pc' = "fetched"
    /\ UNCHANGED <<contract_index, violations, impacted>>
    /\ UNCHANGED <<text_vars, matcher_vars, flagger_vars, risk>>

NextFetch == FetchNewRules

SpecFetch == InitFetch /\ [][NextFetch]_vars

\* the titles of the three template regulations, in their order
TemplateTitles ==
    <<"New Data Privacy Transparency Rule", "AI Algorithmic Accountability Act",
      "Digital Services Liability Standard">>

TitlesOf(store) == {store.items[i].title : i \in 1..Len(store.items)}

\* the place of the first template title the store does not hold, 0 when it
\* holds all three
FirstMissing(store) ==
    LET missing == {k \in 1..3 : TemplateTitles[k] \notin TitlesOf(store)}
    IN  IF missing = {} THEN 0 ELSE CHOOSE k \in missing : \A j \in missing : k <= j

\* C23: a call of mock_fetch_regulations appends to the stored list exactly
\* the first of (privacy rule, AI accountability act, liability standard)
\* whose title is not stored yet and returns it; when all three titles are
\* stored it returns None and leaves the store as it is.  From an empty
\* store the first three calls return the three in that order and every
\* later call returns None; the stored titles stay pairwise distinct.
C23_FetchCycle ==
    pc = "fetched" =>
        LET before == session.before
            new_reg == session.fetched[Len(session.fetched)]
        IN  /\ raised = None
            /\ new_reg = FirstMissing(before)
            /\ new_reg # 0 =>
                   /\ regs.items = Append(before.items, options[new_reg])
                   /\ options[new_reg].title = TemplateTitles[new_reg]
            /\ new_reg = 0 => regs = before
            /\ session.initial = List(<<>>) =>
                   \A n \in 1..Len(session.fetched) :
                       session.fetched[n] = IF n <= 3 THEN n ELSE 0
            /\ DistinctTitles(regs.items)

\* C23 witness: four calls from an empty store; the fourth returned None
\* and the store holds the three regulations.
C23_Witness ==
    /\ pc = "fetched"
    /\ session.initial = List(<<>>)
    /\ session.fetched = <<1, 2, 3, 0>>
    /\ Len(regs.items) = 3

(***************************************************************************)
(* Fetch New Rules in two sessions: the read and the write of the          *)
(* regulations file by mock_fetch_regulations are steps of their own       *)
(***************************************************************************)

\* most calls of mock_fetch_regulations in one session
MaxSessionFetches == 3

\* the locals of mock_fetch_regulations in a session, and what its calls
\* have returned so far, by place in options (0 for None)
Fetching(at, store, fetched) == [at |-> at, regs |-> store, fetched |-> fetched]

\* after utils.ensure_dirs: the store is the empty list
InitFetchRace ==
    /\ regs = List(<<>>)
    /\ session = [s \in Sessions |-> Fetching("idle", List(<<>>), <<>>)]
    /\ contract_index = <<>> /\ violations = <<>> /\ impacted = <<>> /\ raised = None
    /\ TextIdle /\ MatcherIdle /\ FlaggerIdle /\ RiskIdle
    /\ pc = "fetching"

\* regs = read_json(REGS_FILE)
ReadRegs(s) ==
    /\ session[s].at = "idle"
    /\ Len(session[s].fetched) < MaxSessionFetches
    /\ session' = [session EXCEPT ![s] = Fetching("read", read_json(regs).value, session[s].fetched)]
    /\ UNCHANGED <<regs, contract_index, violations, impacted, raised>>
    /\ UNCHANGED <<text_vars, matcher_vars, flagger_vars, risk, pc>>

\* the rest of the call: the first option whose title the list read does
\* not hold is appended to it and the list is written, or None is returned
WriteRegs(s) ==
    /\ session[s].at = "read"
    /\ \E new_reg \in {NewReg(existing_titles(session[s].regs).value)} :
           /\ regs' = IF new_reg = 0 THEN regs
                      ELSE List(Append(session[s].regs.items, options[new_reg]))
           /\ session' = [session EXCEPT ![s] =
                              Fetching("idle", session[s].regs, Append(session[s].fetched, new_reg))]
    /\ UNCHANGED <<contract_index, violations, impacted, raised>>
    /\ UNCHANGED <<text_vars, matcher_vars, flagger_vars, risk, pc>>

NextFetchRace == \E s \in Sessions : ReadRegs(s) \/ WriteRegs(s)

SpecFetchRace == InitFetchRace /\ [][NextFetchRace]_vars

\* how many of the calls listed returned a regulation
RECURSIVE Successes(_)
Successes(fetched) ==
    IF fetched = <<>> THEN 0
    ELSE (IF fetched[1] # 0 THEN 1 ELSE 0) + Successes(Tail(fetched))

\* C24: every fetch that returns a regulation adds one regulation to the
\* store, also when the fetches of two sessions interleave their read and
\* write of the file: after k fetches have returned a regulation, from an
\* empty store, the store holds k regulations with pairwise distinct
\* titles.
C24_FetchesAddUp ==
    pc = "fetching" =>
        /\ Len(regs.items) = Successes(session[1].fetched) + Successes(session[2].fetched)
        /\ DistinctTitles(regs.items)

\* the stored titles are pairwise distinct however the fetches interleave
TitlesStayDistinct == pc = "fetching" => DistinctTitles(regs.items)

(***************************************************************************)
(* apply_updates_inline                                                    *)
(***************************************************************************)

UPDATE_APPLIED == <<"R", "E", "G", "U", "L", "A", "T", "I", "O", "N", " ", "U", "P", "D", "A", "T", "E", " ", "A", "P", "P", "L", "I", "E", "D">>

\* the places where pattern, a literal, matches in t under re.IGNORECASE
LiteralMatches(pattern, t) ==
    UNION {{i \in 0..(Len(folded) - Len(p)) : \A j \in 1..Len(p) : folded[i + j] = p[j]} :
               folded \in {lower(t)}, p \in {lower(pattern)}}

\* HasMarker as a bug would have it: the test left out
HasMarker_never(content) == FALSE

\* re.search(r"REGULATION UPDATE APPLIED", content, flags=re.IGNORECASE)
HasMarker(content) == LiteralMatches(UPDATE_APPLIED, content) # {}

\* re.split(p1|p2|..., t, flags=re.IGNORECASE)[0]: t up to the first place
\* where one of the literals matches, all of t when none does
BeforeFirstMatch(patterns, t) ==
    LET at == UNION {LiteralMatches(p, t) : p \in patterns}
    IN  IF at = {} THEN t
        ELSE Slice(t, 0, CHOOSE i \in at : \A j \in at : i <= j)

\* FirstKeyword as a bug would have it: the last keyword found
RECURSIVE FirstKeyword_last(_, _, _)
FirstKeyword_last(keywords, sec_text, k) ==
    IF k > Len(keywords) THEN 0
    ELSE LET later == FirstKeyword_last(keywords, sec_text, k + 1)
         IN  IF later # 0 THEN later
             ELSE IF In(lower(keywords[k]), sec_text) THEN k ELSE 0

\* the loop over the keywords of a regulation from the k-th on: the place of
\* the first that is in sec_text, 0 when none is
RECURSIVE FirstKeyword(_, _, _)
FirstKeyword(keywords, sec_text, k) ==
    IF k > Len(keywords) THEN 0
    ELSE IF In(lower(keywords[k]), sec_text) THEN k
    ELSE FirstKeyword(keywords, sec_text, k + 1)

\* the text added for a regulation and the keyword found
UpdateBlock(r, kw) ==
    UPDATE_APPLIED \o <<" ", "(">> \o r.date_published
        \o <<")", "\n", "T", "i", "t", "l", "e", ":", " ">> \o r.title
        \o <<"\n", "S", "u", "g", "g", "e", "s", "t", "e", "d", " ", "U", "p", "d", "a", "t", "e", ":", " ", "P", "a", "r", "t", "i", "e", "s", " ", "a", "g", "r", "e", "e", " ", "t", "o", " ", "i", "m", "p", "l", "e", "m", "e", "n", "t", " ", "t", "r", "a", "n", "s", "p", "a", "r", "e", "n", "c", "y", " ", "m", "e", "a", "s", "u", "r", "e", "s", " ", "r", "e", "g", "a", "r", "d", "i", "n", "g", " ">>
        \o kw \o <<".", "\n">>
        \o [i \in 1..62 |-> "-"] \o <<"\n", "\n">>

\* updates_for_section after the loop over the regulations from the i-th on
RECURSIVE UpdatesForSection(_, _, _)
UpdatesForSection(rs, i, sec_text) ==
    IF i > Len(rs) THEN <<>>
    ELSE LET keywords == get(rs[i], "keywords", <<>>)
             k == FirstKeyword(keywords, sec_text, 1)
         IN  (IF k = 0 THEN <<>> ELSE UpdateBlock(rs[i], keywords[k]))
                 \o UpdatesForSection(rs, i + 1, sec_text)

\* one pass of the loop over the sections: the section appended and
\* whether something was inserted
NewSection(heading, content, rs) ==
    IF HasMarker(content)
    THEN [section |-> <<heading, content>>, inserted |-> FALSE]
    ELSE LET content_clean == strip(BeforeFirstMatch({UPDATE_APPLIED}, content))
             sec_text == lower(heading \o NL \o content_clean)
             updates_for_section == UpdatesForSection(rs, 1, sec_text)
             new_content ==
                 IF updates_for_section # <<>>
                 THEN strip(content_clean \o NLNL \o strip(updates_for_section))
                 ELSE content_clean
         IN  [section |-> <<heading, new_content>>, inserted |-> updates_for_section # <<>>]

\* returns <<new_sections, inserted_any>>
apply_updates_inline(secs, rs) ==
    LET passes == [i \in 1..Len(secs) |-> NewSection(secs[i][1], secs[i][2], rs)]
    IN  <<[i \in 1..Len(secs) |-> passes[i].section],
          \E i \in 1..Len(secs) : passes[i].inserted>>

(***************************************************************************)
(* Sections are updated for a list of regulations, and updated again       *)
(***************************************************************************)

\* regulations with short texts for title and date; the last has no
\* keywords field, the one before a keyword that lies across the line break
\* between a heading and its content
UpdateRegs ==
    { [title |-> <<"P">>, date_published |-> <<"1">>, keywords |-> << <<"z">>, <<"K">>, <<"x">> >>],
      [title |-> <<"Q">>, date_published |-> <<"2">>, keywords |-> << <<"a", "b">> >>],
      [title |-> <<"S">>, date_published |-> <<"3">>, keywords |-> << <<"B", "\n", "k">> >>],
      [title |-> <<"N">>, date_published |-> <<"4">>] }

\* most regulations of a list
MaxRegs == 2

\* most sections of a document
MaxSections == 2

\* how often the sections are updated
MaxApplications == 2

UpdateHeadings == { <<"A", "B">> }

\* contents: empty, with a keyword and whitespace around it, with another
\* keyword, with no keyword, and with the marker in another case
UpdateContents ==
    { <<>>,
      <<" ", "k", " ", "x", "\n">>,
      <<"y">>,
      <<"k", "\n">> \o lower(UPDATE_APPLIED) \o <<" ", "(", "0", ")">> }

\* the lists of up to n members of S
RECURSIVE ListsOf(_, _)
ListsOf(S, n) ==
    IF n = 0 THEN {<<>>}
    ELSE LET shorter == ListsOf(S, n - 1)
         IN  shorter \cup {Append(l, x) : l \in {y \in shorter : Len(y) = n - 1}, x \in S}

InitUpdates ==
    /\ sections \in ListsOf(UpdateHeadings \X UpdateContents, MaxSections)
    /\ regs \in {List(l) : l \in ListsOf(UpdateRegs, MaxRegs)}
    /\ history = <<>>
    /\ original_text = <<>> /\ new_clause_text = <<>> /\ result_text = <<>>
    /\ contract_index = <<>> /\ violations = <<>> /\ impacted = <<>>
    /\ raised = None /\ session = None
    /\ MatcherIdle /\ FlaggerIdle /\ RiskIdle
    /\ pc = "start"

\* apply_updates_inline on the sections, then on what it returned; history
\* keeps what the calls returned
ApplyUpdatesInline ==
    /\ Len(history) < MaxApplications
    /\ LET given == IF history = <<>> THEN sections ELSE history[Len(history)][1]
       IN  history' = Append(history, apply_updates_inline(given, regs.items))
    /\ pc' = "updated"
    /\ UNCHANGED <<original_text, new_clause_text, sections, result_text>>
    /\ UNCHANGED <<matcher_vars, flagger_vars, risk, store_vars>>

NextUpdates == ApplyUpdatesInline

SpecUpdates == InitUpdates /\ [][NextUpdates]_vars

(***************************************************************************)
(* Claims about apply_updates_inline (SpecUpdates)                         *)
(***************************************************************************)

\* the sections the n-th call was given
GivenTo(n) == IF n = 1 THEN sections ELSE history[n - 1][1]

\* the upper-case letter of each lower-case letter
ToUpper ==
    [c \in Range(LowerLetters) |->
        UpperLetters[CHOOSE j \in 1..Len(LowerLetters) : LowerLetters[j] = c]]

\* a text with its letters in upper case
Upper(s) == [i \in 1..Len(s) |-> IF s[i] \in DOMAIN ToUpper THEN ToUpper[s[i]] ELSE s[i]]

\* the offsets at which sub occurs in t, letter case aside
FoldedOccurrences(sub, t) ==
    UNION {UNION {{i \in 0..(Len(T) - Len(S)) : \A j \in 1..Len(S) : T[i + j] = S[j]} :
                      S \in {Upper(sub)}} :
               T \in {Upper(t)}}

\* the text occurs in the content, letter case aside
Marked(content) == FoldedOccurrences(UPDATE_APPLIED, content) # {}

\* the text the keywords are looked for in: the heading, a line break, the
\* trimmed content
SectionText(section) == section[1] \o NL \o strip(section[2])

\* the update blocks due to a section: for each regulation from the i-th on
\* with a keyword that occurs in the section, the block of its first such
\* keyword
RECURSIVE BlocksDue(_, _, _)
BlocksDue(rs, i, section) ==
    IF i > Len(rs) THEN <<>>
    ELSE LET keywords == KeywordsOf(rs[i])
             found == {k \in 1..Len(keywords) :
                          FoldedOccurrences(keywords[k], SectionText(section)) # {}}
         IN  (IF found = {} THEN <<>>
              ELSE <<UpdateBlock(rs[i], keywords[CHOOSE k \in found : \A m \in found : k <= m])>>)
                 \o BlocksDue(rs, i + 1, section)

RECURSIVE Concat(_)
Concat(texts) == IF texts = <<>> THEN <<>> ELSE texts[1] \o Concat(Tail(texts))

\* the trimmed content followed by the blocks
WithBlocks(content, blocks) ==
    IF blocks = <<>> THEN strip(content)
    ELSE strip(strip(content) \o NLNL \o strip(Concat(blocks)))

\* C27: apply_updates_inline keeps the number, order and headings of the
\* sections; a section whose content holds "REGULATION UPDATE APPLIED" in
\* any case is returned unchanged; the content of every other section is
\* its trimmed content followed by one update block for each regulation, in
\* the order of the regulations, that has a keyword occurring in heading
\* and content letter case aside, the block naming the first such keyword;
\* inserted_any is true iff a block was added.
C27_UpdatesInline ==
    pc = "updated" =>
        \A given \in {GivenTo(Len(history))} :
            \A due \in {[i \in 1..Len(given) |->
                            IF Marked(given[i][2]) THEN <<>>
                            ELSE BlocksDue(regs.items, 1, given[i])]} :
                LET new_sections == history[Len(history)][1]
                    inserted_any == history[Len(history)][2]
                IN  /\ Len(new_sections) = Len(given)
                    /\ \A i \in 1..Len(given) :
                           /\ new_sections[i][1] = given[i][1]
                           /\ Marked(given[i][2]) => new_sections[i] = given[i]
                           /\ ~Marked(given[i][2]) =>
                                  new_sections[i][2] = WithBlocks(given[i][2], due[i])
                    /\ inserted_any <=> \E i \in 1..Len(given) : due[i] # <<>>

\* C27 witness: of two sections the first got two blocks, the second, which
\* holds the marker in lower case, none, though it has a keyword.
C27_Witness ==
    /\ pc = "updated"
    /\ Len(history) = 1
    /\ Len(sections) = 2
    /\ ~Marked(sections[1][2])
    /\ Len(BlocksDue(regs.items, 1, sections[1])) = 2
    /\ Marked(sections[2][2])
    /\ BlocksDue(regs.items, 1, sections[2]) # <<>>
    /\ history[1][1][2] = sections[2]
    /\ history[1][2]

\* C28: apply_updates_inline applied to its own output returns the same
\* sections and inserted_any = False, so that however often it is applied
\* a section held no update block before holds at most one for each
\* regulation.
C28_UpdatesIdempotent ==
    pc = "updated" =>
        LET n == Len(history)
        IN  /\ n > 1 => history[n] = <<history[n - 1][1], FALSE>>
            /\ \A i \in 1..Len(sections) :
                   ~Marked(sections[i][2]) =>
                       Cardinality(FoldedOccurrences(UPDATE_APPLIED, history[n][1][i][2]))
                           = Len(BlocksDue(regs.items, 1, sections[i]))

\* C28 witness: the second call, after a first that inserted two blocks
\* into a section.
C28_Witness ==
    /\ pc = "updated"
    /\ Len(history) = 2
    /\ history[1][2]
    /\ ~history[2][2]
    /\ \E i \in 1..Len(sections) :
           /\ history[1][1][i] # sections[i]
           /\ Cardinality(FoldedOccurrences(UPDATE_APPLIED, history[2][1][i][2])) = 2

(***************************************************************************)
(* extract_json_block of main.py                                           *)
(***************************************************************************)

\* the loop over the characters of text from offset i on: the slice
\* <<start, end>> it returns, <<-1, -1>> when it ends without returning
RECURSIVE BraceScan(_, _, _, _)
BraceScan(t, i, brace, start) ==
    IF i >= Len(t) THEN <<-1, -1>>
    ELSE LET ch == t[i + 1] IN
         IF ch = "{"
         THEN BraceScan(t, i + 1, brace + 1, IF brace = 0 THEN i ELSE start)
         ELSE IF ch = "}" /\ brace > 0
         THEN IF brace - 1 = 0 /\ start # -1
              THEN <<start, i + 1>>
              ELSE BraceScan(t, i + 1, brace - 1, start)
         ELSE BraceScan(t, i + 1, brace, start)

\* the grave accent U+0060, which no string of this language can hold: the
\* one element of a text that is written as a name
Grave == "GRAVE"

\* the code-fence marker, three grave accents
Fence == <<Grave, Grave, Grave>>

Json == <<"j", "s", "o", "n">>

\* re.sub of the pattern FENCE(?:json)? by "" from offset i on: every fence
\* marker, with the word json when it follows at once, is removed
RECURSIVE RemoveFences(_, _)
RemoveFences(t, i) ==
    IF i >= Len(t) THEN <<>>
    ELSE IF i + 3 <= Len(t) /\ Slice(t, i, i + 3) = Fence
    THEN IF i + 7 <= Len(t) /\ Slice(t, i + 3, i + 7) = Json
         THEN RemoveFences(t, i + 7)
         ELSE RemoveFences(t, i + 3)
    ELSE <<t[i + 1]>> \o RemoveFences(t, i + 1)

extract_json_block(t) ==
    LET found == BraceScan(t, 0, 0, -1)
    IN  IF found[1] # -1 THEN Slice(t, found[1], found[2])
        ELSE strip(RemoveFences(t, 0))

\* the pieces the outputs of the language model are assembled from
JsonPieces ==
    { <<"{">>, <<"}">>, <<"a">>, <<" ">>, <<"\n">>, Fence, Fence \o Json }

\* longest output, in pieces
MaxJsonPieces == 4

InitExtract ==
    /\ original_text \in Concats(JsonPieces, MaxJsonPieces)
    /\ new_clause_text = <<>>
    /\ sections = <<>>
    /\ result_text = <<>>
    /\ history = <<>>
    /\ MatcherIdle /\ FlaggerIdle /\ RiskIdle /\ StoreIdle
    /\ pc = "start"

\* cleaned = extract_json_block(clauses_json)
ExtractJsonBlock ==
    /\ pc = "start"
    /\ result_text' = extract_json_block(original_text)
    /\ pc' = "extracted"
    /\ UNCHANGED <<original_text, new_clause_text, sections, history>>
    /\ UNCHANGED <<matcher_vars, flagger_vars, risk, store_vars>>

NextExtract == ExtractJsonBlock

SpecExtract == InitExtract /\ [][NextExtract]_vars

(***************************************************************************)
(* Claims about extract_json_block (SpecExtract)                           *)
(***************************************************************************)

\* how many more { than } the first n characters of s have
RECURSIVE Depth(_, _)
Depth(s, n) ==
    IF n = 0 THEN 0
    ELSE Depth(s, n - 1) + (IF s[n] = "{" THEN 1 ELSE IF s[n] = "}" THEN -1 ELSE 0)

\* s is a block {...} with balanced braces
BalancedBlock(s) ==
    /\ Len(s) >= 2
    /\ s[1] = "{"
    /\ s[Len(s)] = "}"
    /\ Depth(s, Len(s)) = 0
    /\ \A n \in 1..(Len(s) - 1) : Depth(s, n) > 0

\* the blocks of t
Blocks(t) ==
    {<<i, j>> \in (0..Len(t)) \X (0..Len(t)) : i < j /\ BalancedBlock(Slice(t, i, j))}

NoBraces(t) == \A n \in 1..Len(t) : t[n] \notin {"{", "}"}

\* C29: for a text that contains a brace-balanced block {...}
\* extract_json_block returns a string that begins with {, ends with } and
\* has balanced braces, the text around it removed; for a text without
\* braces it returns the text without its code-fence markers, trimmed.
C29_ExtractsJsonBlock ==
    pc = "extracted" =>
        /\ Blocks(original_text) # {} =>
               \E b \in Blocks(original_text) :
                   result_text = Slice(original_text, b[1], b[2])
        /\ NoBraces(original_text) =>
               /\ result_text = strip(result_text)
               /\ ~In(Fence, result_text)
               /\ IsSubsequence(result_text, original_text)

(***************************************************************************)
(* The update-marker cleanup of test_clean.py                              *)
(***************************************************************************)

UPDATES_APPLIED_EQ == <<"=", "=", "=", " ", "U", "P", "D", "A", "T", "E", "S", " ", "A", "P", "P", "L", "I", "E", "D">>

UPDATES_APPLIED_HASH == <<"#", " ", "-", "-", "-", " ", "U", "P", "D", "A", "T", "E", "S", " ", "A", "P", "P", "L", "I", "E", "D">>

UPDATE_DETECTED == <<"R", "E", "G", "U", "L", "A", "T", "I", "O", "N", " ", "U", "P", "D", "A", "T", "E", " ", "D", "E", "T", "E", "C", "T", "E", "D">>

\* cleanup_pattern as a bug would have it: the first literal alone
cleanup_pattern_first == {UPDATES_APPLIED_EQ}

\* the literals of cleanup_pattern, any of which the pattern matches
cleanup_pattern ==
    {UPDATES_APPLIED_EQ, UPDATES_APPLIED_HASH, UPDATE_DETECTED, UPDATE_APPLIED}

\* parts = re.split(cleanup_pattern, messy_text, flags=re.IGNORECASE);
\* clean_text = parts[0].strip()
CleanText(messy_text) == strip(BeforeFirstMatch(cleanup_pattern, messy_text))

\* what the texts to clean are assembled from: the markers as the versions of
\* a contract hold them, in several cases, and the text around them
CleanupPieces ==
    { <<"=", "=", "=", " ", "U", "P", "D", "A", "T", "E", "S", " ", "A", "P", "P", "L", "I", "E", "D", " ", "=", "=", "=", "\n">>,
      <<"#", " ", "-", "-", "-", " ", "u", "p", "d", "a", "t", "e", "s", " ", "a", "p", "p", "l", "i", "e", "d">>,
      <<"R", "E", "G", "U", "L", "A", "T", "I", "O", "N", " ", "U", "P", "D", "A", "T", "E", " ", "D", "E", "T", "E", "C", "T", "E", "D">>,
      <<"-", "-", "-", " ", "R", "e", "g", "u", "l", "a", "t", "i", "o", "n", " ", "U", "p", "d", "a", "t", "e", " ", "A", "p", "p", "l", "i", "e", "d", ":", " ">>,
      <<"=", "=", "=", " ", "U", "P", "D", "A", "T", "E">>,
      <<"S", "i", "g", "n", "e", "d", ".">>,
      <<"\n">>,
      <<" ">> }

\* longest text to clean, in pieces
MaxCleanupPieces == 3

\* how many times a text is cleaned
MaxCleanings == 2

InitCleanup ==
    /\ original_text \in Concats(CleanupPieces, MaxCleanupPieces)
    /\ new_clause_text = <<>>
    /\ sections = <<>>
    /\ result_text = <<>>
    /\ history = <<>>
    /\ MatcherIdle /\ FlaggerIdle /\ RiskIdle /\ StoreIdle
    /\ pc = "start"

\* the cleaning logic run on the text, and then on what it gave; history
\* keeps every clean_text
Clean ==
    /\ pc \in {"start", "cleaned"}
    /\ Len(history) < MaxCleanings
    /\ \E clean_text \in {CleanText(IF pc = "start" THEN original_text ELSE result_text)} :
           /\ result_text' = clean_text
           /\ history' = Append(history, clean_text)
    /\ pc' = "cleaned"
    /\ UNCHANGED <<original_text, new_clause_text, sections>>
    /\ UNCHANGED <<matcher_vars, flagger_vars, risk, store_vars>>

NextCleanup == Clean

SpecCleanup == InitCleanup /\ [][NextCleanup]_vars

(***************************************************************************)
(* Claims about the cleanup (SpecCleanup)                                  *)
(***************************************************************************)

Markers ==
    {UPDATES_APPLIED_EQ, UPDATES_APPLIED_HASH, UPDATE_DETECTED, UPDATE_APPLIED}

\* the offsets of t at which a marker begins, letter case aside
MarkerOffsets(t) == UNION {FoldedOccurrences(m, t) : m \in Markers}

\* C30: the cleaned text holds none of the four markers in any
\* letter case, is the trimmed part of the original text that precedes the
\* first occurrence of a marker (the whole trimmed text when there is none),
\* and cleaning it again gives the same text, whatever number of update
\* blocks the original holds.
C30_CleanupRemovesMarkers ==
    pc = "cleaned" =>
        \A at \in {MarkerOffsets(original_text)} :
            /\ MarkerOffsets(history[1]) = {}
            /\ at = {} => history[1] = strip(original_text)
            /\ \A n \in at :
                   (\A m \in at : n <= m) => history[1] = strip(Slice(original_text, 0, n))
            /\ \A k \in 2..Len(history) : history[k] = history[1]

\* a text with words before two update blocks has been cleaned twice
C30_Witness ==
    /\ pc = "cleaned"
    /\ Len(history) = 2
    /\ Cardinality(MarkerOffsets(original_text)) >= 2
    /\ history[1] # <<>>
    /\ history[1] # strip(original_text)

====
